---- MODULE Spec2Model ----
(***************************************************************************)
(* Model of gostratum/resiliencex.                                         *)
(*                                                                         *)
(* Circuit breaker (src/circuit_breaker.go): the breaker object, its       *)
(* mutex-protected handlers beforeRequest / afterRequest / Reset, and a    *)
(* set of concurrent callers of Execute.  Every handler runs under cb.mu,  *)
(* so one handler is one atomic step; the user operation fn(ctx) runs      *)
(* between beforeRequest and afterRequest with the mutex released, so any  *)
(* number of other steps may interleave there.                             *)
(*                                                                         *)
(* Time.  time.Now() is modelled by reading the variable clock, an integer *)
(* number of clock units.  The clock never runs backwards, and it advances *)
(* by its own action: two readings taken by two handlers may be equal, as  *)
(* they are whenever both fall into one unit of the platform's clock       *)
(* resolution.  Readings are positive (UnixNano of a present-day time), so *)
(* no stateTime ever converts to the generation 0.                         *)
(*                                                                         *)
(* FailureThreshold is a float64 in the source; it is modelled as the      *)
(* pair <<num, den>> of the rational num / den, and the comparison         *)
(*   float64(totalFailures) / float64(requests) >= FailureThreshold        *)
(* as totalFailures * den >= num * requests, which agrees with the rounded *)
(* division for all uint32 counts and small denominators (distinct such    *)
(* ratios differ by far more than one ulp).  MinRequests >= 1 after        *)
(* NewCircuitBreaker, so the division is never by zero.                    *)
(*                                                                         *)
(* Several specifications share the module, each with its own variables   *)
(* and the others' held fixed:                                             *)
(*   Spec          the breaker, one handler per step (above);              *)
(*   SpecLock      the breaker and the rate limiter's Allow at the level   *)
(*                 of their mutexes: Lock, body, callback, deferred Unlock;*)
(*   SpecRetry     one call of Retry.Execute (src/retry.go) with a handle  *)
(*                 that may be cancelled at any moment;                    *)
(*   SpecBulkhead  concurrent calls of Bulkhead.Execute on the two         *)
(*                 buffered channels b.sem and b.queue                     *)
(*                 (SpecBulkheadLive: without cancellation, with the       *)
(*                 goroutines scheduled fairly);                           *)
(*   SpecLimiter   the rate limiter's Allow and Wait                       *)
(*                 (src/resilience_test.go);                               *)
(*   SpecTimeout   one call of Timeout.Execute (src/timeout.go) with the   *)
(*                 goroutine it starts (SpecTimeoutLive: with the clock,   *)
(*                 the timer and the goroutines scheduled fairly);         *)
(*   SpecExecutor  one caller of Executor.ExecuteWithResult                *)
(*                 (src/unnamed/part_000) followed through every set of    *)
(*                 enabled layers, with other calls taking the bulkhead's  *)
(*                 free slots (SpecExecutorPair: concurrent callers of an  *)
(*                 Executor with bulkhead and timeout).                    *)
(*                                                                         *)
(* Go channels: a send in a select with a default branch succeeds iff the  *)
(* buffer has room; a goroutine blocked in a select is woken by the first  *)
(* of its cases to become ready; a select entered with several cases      *)
(* ready takes any of them; a receive from a full channel hands the freed  *)
(* place to the longest-blocked sender.                                    *)
(*                                                                         *)
(* Rate limiter tokens (float64 in the source) are counted in units of     *)
(* 1 / TokenUnit token, and the Rate in such units per clock unit.         *)
(*                                                                         *)
(* Definitions named Cn_mutant_x are faulty variants of the definition x,  *)
(* used to show that the property of claim Cn depends on x.                *)
(***************************************************************************)
EXTENDS Integers, Sequences, FiniteSets, TLC

(***************************************************************************)
(* Bounds of the model.                                                    *)
(***************************************************************************)
\* number of goroutines that call Execute concurrently
NumCallers == 2
\* last clock reading of a run
MaxClock == 4
\* cap on counts.requests (uint32 in the source, far from wrapping here)
MaxCount == 3
\* largest configured MaxRequests / MinRequests
MaxMaxRequests == 2
MaxMinRequests == 2
\* configured Timeout and Interval, in clock units
TimeoutTicks == 1
IntervalTicks == 2
\* rate limiter: one token is TokenUnit units; largest configured Rate (units
\* per clock unit) and Burst (tokens)
TokenUnit == 2
MaxRate == 1
MaxBurst == 1
\* retry: largest configured MaxAttempts (0 stands for "not set")
MaxMaxAttempts == 2
\* DefaultRetryConfig().MaxAttempts
DefaultMaxAttempts == 3
\* bulkhead: goroutines calling Execute, largest configured MaxConcurrent and
\* MaxQueueSize
NumBulkheadCallers == 3
MaxMaxConcurrent == 2
MaxMaxQueueSize == 2
\* rate limiter Wait: goroutines calling Wait, largest configured Rate (units
\* per clock unit) and Burst (tokens) of their limiter
NumWaitCallers == 1
MaxLimiterRate == 2
MaxLimiterBurst == 2
\* timeout: largest configured duration, in clock units
MaxDuration == 2
\* Executor: callers of ExecuteWithResult
NumExecCallers == 2
\* DefaultBulkheadConfig().MaxConcurrent, .MaxQueueSize
DefaultMaxConcurrent == 10
DefaultMaxQueueSize == 100

Callers == 1..NumCallers

(***************************************************************************)
(* CircuitState and the error values of Execute.                           *)
(***************************************************************************)
StateClosed == "closed"
StateOpen == "open"
StateHalfOpen == "half-open"
CircuitState == {StateClosed, StateOpen, StateHalfOpen}

ErrCircuitOpen == "ErrCircuitOpen"
NoError == "nil"
OpError == "operation error"

\* the configurations a breaker is constructed with (all fields non-zero, so
\* NewCircuitBreaker substitutes no default)
\* FailureThreshold = 0.5, as the rational 1 / 2
Thresholds == { <<1, 2>> }
CircuitBreakerConfig ==
    [ MaxRequests : 1..MaxMaxRequests,
      MinRequests : 1..MaxMinRequests,
      Timeout : {TimeoutTicks},
      Interval : {IntervalTicks},
      FailureThreshold : Thresholds ]

VARIABLES
    config,   \* cb.config, fixed at construction
    cb,       \* the breaker: state, counts, stateTime (+ callbacks fired by the running handler)
    clock,    \* the current reading of time.Now()
    pc,       \* pc[p]: "idle" (outside Execute) or "fn" (inside fn(ctx), admitted)
    gen,      \* gen[p]: the generation beforeRequest returned to p
    last,     \* the most recent step: which handler ran, what it made Execute return
    probe,    \* history: p's admission made the Open -> HalfOpen transition
    stale,    \* history: the generation p was admitted in has ended
    hoAdmitted, \* history: calls admitted in HalfOpen since it was entered, the probe excluded
    hoSuccesses \* history: consecutive successes reported by calls admitted in this HalfOpen

vars == << config, cb, clock, pc, gen, last, probe, stale, hoAdmitted, hoSuccesses >>

VARIABLES
    mu,       \* mu.cb, mu.rl: the goroutine that holds cb.mu / rl.mu, 0 when free
    at,       \* at[p]: goroutine p's call stack inside the primitives and their callbacks
    rl,       \* the rate limiter: tokens, lastTime
    rlconfig  \* rl.config, fixed at construction

lockVars == << mu, at, rl, rlconfig >>

VARIABLES
    rconfig,     \* r.config after NewRetry: MaxAttempts, ShouldRetry (configured or nil)
    rpc,         \* where Retry.Execute is: "idle", "loop", "sleep", "done"
    attempt,     \* the loop variable of Execute
    lastErr,     \* the local lastErr of Execute
    ctxErr,      \* ctx.Err() of the handle passed to Execute
    doneAtEntry, \* ctx.Done() was already closed when the select was entered
    ret,         \* what Execute returned
    outcomes,    \* history: what each invocation of fn returned
    onRetry,     \* history: the arguments of each OnRetry call
    sleeps,      \* history: how many backoff sleeps Execute began
    asleepCancel \* history: the handle was cancelled while Execute was sleeping

retryVars ==
    << rconfig, rpc, attempt, lastErr, ctxErr, doneAtEntry, ret, outcomes, onRetry,
       sleeps, asleepCancel >>

VARIABLES
    bgiven,   \* the BulkheadConfig that NewBulkhead was called with
    bconfig,  \* b.config, after NewBulkhead
    sem,      \* len(b.sem): tokens in the channel of capacity MaxConcurrent
    queue,    \* len(b.queue): tokens in the channel of capacity MaxQueueSize
    sendq,    \* the goroutines parked in the send on b.sem, in the order they parked
    bpc,      \* bpc[p]: where goroutine p is in bulkhead.Execute
    bctx,     \* bctx[p]: ctx.Err() of the handle of p's call (Nil: not cancelled)
    fnres,    \* fnres[p]: fn(ctx) in p's call: not called, running, or its result
    regq,     \* the goroutines waiting with a token in b.queue, in the order of their sends
    bret      \* the error returned by the call of Execute that returned last

bulkheadVars == << bgiven, bconfig, sem, queue, sendq, bpc, bctx, fnres, regq, bret >>

VARIABLES
    wpc,      \* wpc[p]: where goroutine p is in rateLimiter.Wait
    wctx,     \* wctx[p]: ctx.Err() of the handle of p's call (Nil: not cancelled)
    wake,     \* wake[p]: the clock reading at which the timer of p's sleep expires
    wtook,    \* history: wtook[p]: token units p's call has taken from the bucket
    wret,     \* the error returned by the call of Wait that returned last, and the units it took
    lres,     \* the last call of Allow: its result, and whether it called OnRateLimit
    grants    \* history: grants[t]: the calls of Allow that returned true at clock reading t

limiterVars == << wpc, wctx, wake, wtook, wret, lres, grants >>

VARIABLES
    tdur,      \* t.duration
    tpc,       \* where Timeout.Execute is
    fpc,       \* where the goroutine that runs fn(timeoutCtx) is
    fres,      \* what fn(timeoutCtx) returned
    errChan,   \* the values in the buffer of errChan
    tctx,      \* timeoutCtx.Err()
    pctx,      \* ctx.Err(), of the handle Execute was called with
    tdeadline, \* the deadline of timeoutCtx
    pdeadline, \* the deadline of ctx (0: none)
    tret       \* what Execute returned

timeoutVars == << tdur, tpc, fpc, fres, errChan, tctx, pctx, tdeadline, pdeadline, tret >>

VARIABLES
    has,      \* the layers of the Executor: hasRateLimiter, hasBulkhead, ... (fixed by Build)
    others,   \* active slots of the bulkhead held by calls that are not followed
    call      \* call[p]: the call of ExecuteWithResult that caller p is making

execVars == << has, others, call >>

\* the variables of the specifications further down
restVars == << limiterVars, timeoutVars, execVars >>

\* the variables the circuit breaker's own specification leaves alone
offBreaker == << lockVars, retryVars, bulkheadVars, restVars >>

(***************************************************************************)
(* type counts struct                                                      *)
(***************************************************************************)
counts ==
    [ requests |-> 0, totalSuccesses |-> 0, totalFailures |-> 0,
      consecSuccess |-> 0, consecFailures |-> 0 ]

\* faulty variant: the counts are zeroed but stateTime keeps its old value
C10_mutant_toNewGeneration(b, now) ==
    [b EXCEPT !.counts = counts, !.newGen = TRUE]
\* cb.toNewGeneration(now)
toNewGeneration(b, now) ==
    [b EXCEPT !.counts = counts, !.stateTime = now, !.newGen = TRUE]

\* cb.currentGeneration(): uint64(cb.stateTime.UnixNano())
currentGeneration(b) == b.stateTime

\* faulty variant: the callback fires even when the state stays the same
C11_mutant_setState(cfg, b, state, now) ==
    LET prev == b.state
        b1 == [b EXCEPT !.state = state, !.stateTime = now, !.newGen = TRUE]
        b2 == IF b1.state = StateClosed THEN toNewGeneration(b1, now) ELSE b1
    IN  [b2 EXCEPT !.fired = Append(@, <<prev, state>>)]
\* cb.setState(state, now)
setState(cfg, b, state, now) ==
    IF b.state = state
    THEN b
    ELSE LET prev == b.state
             b1 == [b EXCEPT !.state = state, !.stateTime = now, !.newGen = TRUE]
             b2 == IF b1.state = StateClosed THEN toNewGeneration(b1, now) ELSE b1
         IN  [b2 EXCEPT !.fired = Append(@, <<prev, state>>)]

\* faulty variant: trips only when the ratio exceeds the threshold
C3_mutant_readyToTrip(cfg, b) ==
    IF b.counts.requests < cfg.MinRequests
    THEN FALSE
    ELSE b.counts.totalFailures * cfg.FailureThreshold[2]
            > cfg.FailureThreshold[1] * b.counts.requests
\* cb.readyToTrip()
readyToTrip(cfg, b) ==
    IF b.counts.requests < cfg.MinRequests
    THEN FALSE
    ELSE b.counts.totalFailures * cfg.FailureThreshold[2]
            >= cfg.FailureThreshold[1] * b.counts.requests

\* cb.onSuccess(now)
onSuccess(cfg, b, now) ==
    LET b1 == [b EXCEPT !.counts.totalSuccesses = @ + 1,
                        !.counts.consecSuccess = @ + 1,
                        !.counts.consecFailures = 0]
    IN  IF b1.state = StateHalfOpen /\ b1.counts.consecSuccess >= cfg.MaxRequests
        THEN setState(cfg, b1, StateClosed, now)
        ELSE b1

\* cb.onFailure(now)
onFailure(cfg, b, now) ==
    LET b1 == [b EXCEPT !.counts.totalFailures = @ + 1,
                        !.counts.consecFailures = @ + 1,
                        !.counts.consecSuccess = 0]
    IN  IF b1.state = StateHalfOpen
        THEN setState(cfg, b1, StateOpen, now)
        ELSE IF readyToTrip(cfg, b1)
             THEN setState(cfg, b1, StateOpen, now)
             ELSE b1

\* a handler starts with nothing fired and no generation started by it
enter(b) == [b EXCEPT !.fired = << >>, !.newGen = FALSE]

\* beforeRequest, Closed: "now.Sub(cb.stateTime) > cb.config.Interval"
intervalPassed(cfg, b, now) == now - b.stateTime > cfg.Interval

\* faulty variant: an Open breaker lets the next call through at any time
C36_mutant_openTimedOut(cfg, b, now) == now >= b.stateTime
\* faulty variant: the timeout counts as elapsed one clock unit early
C1_mutant_openTimedOut(cfg, b, now) == now - b.stateTime >= cfg.Timeout
\* beforeRequest, Open: "now.Sub(cb.stateTime) > cb.config.Timeout"
openTimedOut(cfg, b, now) == now - b.stateTime > cfg.Timeout

\* faulty variant: HalfOpen admits without a cap
C7_mutant_halfOpenFull(cfg, b) == FALSE
\* beforeRequest, HalfOpen: "cb.counts.requests >= cb.config.MaxRequests"
halfOpenFull(cfg, b) == b.counts.requests >= cfg.MaxRequests

\* beforeRequest, the common exit: "cb.counts.requests++; return cb.currentGeneration(), nil"
admitted(b) ==
    [ cb |-> [b EXCEPT !.counts.requests = @ + 1],
      generation |-> currentGeneration(b), err |-> NoError ]

\* beforeRequest, a rejection: "return 0, ErrCircuitOpen"
rejected(b) == [ cb |-> b, generation |-> 0, err |-> ErrCircuitOpen ]

\* faulty variant: the transitioning call falls through to requests++
C4_mutant_halfOpenProbe(cfg, b, now) == admitted(setState(cfg, b, StateHalfOpen, now))
\* beforeRequest, Open after the timeout: "cb.setState(StateHalfOpen, now); return 0, nil"
halfOpenProbe(cfg, b, now) ==
    [ cb |-> setState(cfg, b, StateHalfOpen, now), generation |-> 0, err |-> NoError ]

\* cb.beforeRequest(): the breaker after the call, the generation and the error returned
beforeRequest(cfg, b0, now) ==
    LET b == enter(b0)
    IN  CASE b.state = StateClosed ->
                 IF intervalPassed(cfg, b, now)
                 THEN admitted(toNewGeneration(b, now))
                 ELSE admitted(b)
          [] b.state = StateOpen ->
                 IF openTimedOut(cfg, b, now)
                 THEN halfOpenProbe(cfg, b, now)
                 ELSE rejected(b)
          [] b.state = StateHalfOpen ->
                 IF halfOpenFull(cfg, b)
                 THEN rejected(b)
                 ELSE admitted(b)

\* cb.afterRequest(generation, success)
afterRequest(cfg, b0, generation, success, now) ==
    LET b == enter(b0)
    IN  IF generation # currentGeneration(b)
        THEN b
        ELSE IF success THEN onSuccess(cfg, b, now) ELSE onFailure(cfg, b, now)

\* faulty variant: Reset only sets the state, without toNewGeneration
C9_mutant_Reset(cfg, b0, now) == setState(cfg, enter(b0), StateClosed, now)
\* cb.Reset(): both time.Now() calls are made under the mutex; they are one reading here
Reset(cfg, b0, now) ==
    LET b == enter(b0)
    IN  setState(cfg, toNewGeneration(b, now), StateClosed, now)

\* NewCircuitBreaker(config)
NewCircuitBreaker(now) ==
    [ state |-> StateClosed, counts |-> counts, stateTime |-> now,
      fired |-> << >>, newGen |-> FALSE ]

(***************************************************************************)
(* Rate limiter (src/resilience_test.go, lines 40-143): token bucket.      *)
(***************************************************************************)
\* the configurations a limiter is constructed with (Rate and Burst non-zero)
RateLimiterConfig == [ Rate : 1..MaxRate, Burst : 1..MaxBurst ]

\* NewRateLimiter(config)
NewRateLimiter(cfg, now) == [ tokens |-> cfg.Burst * TokenUnit, lastTime |-> now ]

\* faulty variant: the refill is not capped at Burst
C25_mutant_refillTokens(cfg, l, now) ==
    [ tokens |-> l.tokens + cfg.Rate * (now - l.lastTime), lastTime |-> now ]
\* faulty variant: lastTime is not moved, so the time elapsed is credited again
C26_mutant_refillTokens(cfg, l, now) ==
    LET tokens == l.tokens + cfg.Rate * (now - l.lastTime)
    IN  [ tokens |-> IF tokens > cfg.Burst * TokenUnit THEN cfg.Burst * TokenUnit ELSE tokens,
          lastTime |-> l.lastTime ]
\* rl.refillTokens(now)
refillTokens(cfg, l, now) ==
    LET elapsed == now - l.lastTime
        tokens == l.tokens + cfg.Rate * elapsed
    IN  [ tokens |-> IF tokens > cfg.Burst * TokenUnit THEN cfg.Burst * TokenUnit ELSE tokens,
          lastTime |-> now ]

\* faulty variant: any fraction of a token is enough
C24_mutant_Allow(cfg, l0, now) ==
    LET l == refillTokens(cfg, l0, now)
    IN  IF l.tokens > 0
        THEN [ rl |-> [l EXCEPT !.tokens = @ - TokenUnit], ok |-> TRUE, fired |-> FALSE ]
        ELSE [ rl |-> l, ok |-> FALSE, fired |-> TRUE ]
\* rl.Allow(), between Lock and the deferred Unlock: the limiter afterwards,
\* the result, and whether OnRateLimit is called
Allow(cfg, l0, now) ==
    LET l == refillTokens(cfg, l0, now)
    IN  IF l.tokens >= TokenUnit
        THEN [ rl |-> [l EXCEPT !.tokens = @ - TokenUnit], ok |-> TRUE, fired |-> FALSE ]
        ELSE [ rl |-> l, ok |-> FALSE, fired |-> TRUE ]

\* the mutexes free, every goroutine outside the primitives
LockFree ==
    /\ mu = [ cb |-> 0, rl |-> 0 ]
    /\ at = [p \in Callers |-> << >>]
\* the lock-level variables of a program that never runs at lock level
LockParked ==
    /\ LockFree
    /\ rlconfig = [ Rate |-> 1, Burst |-> 1 ]
    /\ rl = NewRateLimiter(rlconfig, 1)

(***************************************************************************)
(* Retry (src/retry.go).  An error value is a record; the error that the   *)
(* k-th invocation of fn returns carries id k, so that two errors of one   *)
(* call of Execute are never the same value.                               *)
(***************************************************************************)
Nil == [ kind |-> "nil", id |-> 0, retryable |-> FALSE ]
Canceled == [ kind |-> "context.Canceled", id |-> 0, retryable |-> FALSE ]
DeadlineExceeded == [ kind |-> "context.DeadlineExceeded", id |-> 0, retryable |-> FALSE ]
ErrMaxRetriesExceeded == [ kind |-> "ErrMaxRetriesExceeded", id |-> 0, retryable |-> FALSE ]
\* what the k-th invocation of fn can return
Returns(k) == { Nil } \cup { [ kind |-> "op", id |-> k, retryable |-> b ] : b \in BOOLEAN }

\* the configurations NewRetry is called with; ShouldRetry is either nil
\* (FALSE) or the predicate that accepts the errors marked retryable
RetryConfig == [ MaxAttempts : 0..MaxMaxAttempts, ShouldRetry : BOOLEAN ]

\* NewRetry(config): a zero MaxAttempts becomes the default
NewRetry(cfg) ==
    [cfg EXCEPT !.MaxAttempts = IF @ = 0 THEN DefaultMaxAttempts ELSE @]

\* attempt < r.config.MaxAttempts
loopCondition(cfg, a) == a < cfg.MaxAttempts

\* faulty variant: a nil result is not taken as success
C13_mutant_succeeded(err) == FALSE
\* err == nil
succeeded(err) == err = Nil

\* faulty variant: the predicate is ignored
C15_mutant_shouldStop(cfg, err) == FALSE
\* r.config.ShouldRetry != nil && !r.config.ShouldRetry(err)
shouldStop(cfg, err) == cfg.ShouldRetry /\ ~ err.retryable

\* faulty variant: the last attempt is taken to be attempt MaxAttempts
C16_mutant_lastAttempt(cfg, a) == a = cfg.MaxAttempts
\* attempt == r.config.MaxAttempts-1
lastAttempt(cfg, a) == a = cfg.MaxAttempts - 1

\* faulty variant: exhaustion returns the sentinel
C14_mutant_exhausted(err) == ErrMaxRetriesExceeded
\* return lastErr, after the loop
exhausted(err) == err

\* faulty variant: a cancelled sleep returns the last operation error
C17_mutant_cancelled(cerr, err) == err
\* return ctx.Err(), in the select
cancelled(cerr, err) == cerr

\* Retry.Execute has not been called
RetryIdle ==
    /\ rpc = "idle"
    /\ attempt = 0
    /\ lastErr = Nil
    /\ ctxErr = Nil
    /\ doneAtEntry = FALSE
    /\ ret = Nil
    /\ outcomes = << >>
    /\ onRetry = << >>
    /\ sleeps = 0
    /\ asleepCancel = FALSE
\* the retry variables of a program that never calls Retry.Execute
RetryParked == rconfig = NewRetry([ MaxAttempts |-> 0, ShouldRetry |-> FALSE ]) /\ RetryIdle

(***************************************************************************)
(* Bulkhead (src/timeout_test.go, lines 271-340): two buffered channels.   *)
(***************************************************************************)
BulkheadCallers == 1..NumBulkheadCallers

\* the configurations NewBulkhead is called with: MaxConcurrent set,
\* MaxQueueSize possibly 0
BulkheadConfig == [ MaxConcurrent : 1..MaxMaxConcurrent, MaxQueueSize : 0..MaxMaxQueueSize ]

\* NewBulkhead(config): zero fields become the defaults
NewBulkhead(cfg) ==
    [ MaxConcurrent |-> IF cfg.MaxConcurrent = 0 THEN DefaultMaxConcurrent ELSE cfg.MaxConcurrent,
      MaxQueueSize |-> IF cfg.MaxQueueSize = 0 THEN DefaultMaxQueueSize ELSE cfg.MaxQueueSize ]

ErrBulkheadFull == [ kind |-> "ErrBulkheadFull", id |-> 0, retryable |-> FALSE ]
\* fn(ctx) of a call: not reached, entered and not returned, or what it returned
NotCalled == [ kind |-> "fn not called", id |-> 0, retryable |-> FALSE ]
Running == [ kind |-> "fn running", id |-> 0, retryable |-> FALSE ]
FnResults == { Nil, [ kind |-> "op", id |-> 0, retryable |-> FALSE ] }
\* the errors of a cancelled handle
CtxErrors == { Canceled, DeadlineExceeded }

\* a goroutine leaves a queue of goroutines
without(q, p) == SelectSeq(q, LAMBDA x : x # p)

\* faulty variant: the token stays in b.queue
C23_mutant_releaseQueue(n) == n
\* defer func() { <-b.queue }()
releaseQueue(n) == n - 1

\* faulty variant: a cancelled wait returns nil
C21_mutant_executeReturns(res, cerr) == IF res = NotCalled THEN Nil ELSE res
\* what Execute returns from the queued path: return fn(ctx), or
\* return ctx.Err() when fn was not called
executeReturns(res, cerr) == IF res = NotCalled THEN cerr ELSE res

\* b.Available()
Available == bconfig.MaxConcurrent - sem

\* a bulkhead just made: both channels empty, nobody inside Execute
BulkheadEmpty ==
    /\ bconfig = NewBulkhead(bgiven)
    /\ sem = 0
    /\ queue = 0
    /\ sendq = << >>
    /\ bpc = [p \in BulkheadCallers |-> "idle"]
    /\ bctx = [p \in BulkheadCallers |-> Nil]
    /\ fnres = [p \in BulkheadCallers |-> NotCalled]
    /\ regq = << >>
    /\ bret = Nil
\* the bulkhead variables of a program that never calls Bulkhead.Execute
BulkheadParked == bgiven = [ MaxConcurrent |-> 1, MaxQueueSize |-> 1 ] /\ BulkheadEmpty

(***************************************************************************)
(* Rate limiter Wait (src/resilience_test.go, lines 96-142).               *)
(***************************************************************************)
WaitCallers == 1..NumWaitCallers

\* the configurations of the limiter that Allow and Wait are called on
LimiterConfig == [ Rate : 1..MaxLimiterRate, Burst : 1..MaxLimiterBurst ]

\* rl.nextTokenDuration(): (1 - tokens) / Rate, in clock units; a timer is
\* seen to have fired at the first clock reading not before its expiry
nextTokenDuration(cfg, l) ==
    LET tokensNeeded == TokenUnit - l.tokens
    IN  IF tokensNeeded <= 0 THEN 0 ELSE (tokensNeeded + cfg.Rate - 1) \div cfg.Rate

\* faulty variant: an interrupted sleep returns nil
C27_mutant_interrupted(cerr) == Nil
\* case <-ctx.Done(): return ctx.Err()
interrupted(cerr) == cerr

\* no call of Allow or Wait yet
LimiterIdle ==
    /\ wpc = [p \in WaitCallers |-> "idle"]
    /\ wctx = [p \in WaitCallers |-> Nil]
    /\ wake = [p \in WaitCallers |-> 0]
    /\ wtook = [p \in WaitCallers |-> 0]
    /\ wret = [ err |-> Nil, took |-> 0 ]
    /\ lres = [ ok |-> FALSE, fired |-> FALSE ]
    /\ grants = [t \in 1..MaxClock |-> 0]
\* the variables of a program that never calls Wait
LimiterParked == LimiterIdle

(***************************************************************************)
(* Timeout (src/timeout.go).                                               *)
(***************************************************************************)
ErrTimeout == [ kind |-> "ErrTimeout", id |-> 0, retryable |-> FALSE ]

\* t.duration, in clock units (not zero: NewTimeout substitutes no default)
Durations == 1..MaxDuration

\* errChan := make(chan error, 1)
errChanCap == 1

\* faulty variant: cancel() is not called
C30_mutant_deferredCancel(e) == e
\* defer cancel(): a handle that is done keeps its error
deferredCancel(e) == IF e = Nil THEN Canceled ELSE e

\* faulty variant: the handle's error is returned as it is
C28_mutant_doneError(e) == e
\* faulty variant: every done handle is reported as a timeout
C29_mutant_doneError(e) == ErrTimeout
\* case <-timeoutCtx.Done(): ErrTimeout for DeadlineExceeded, else timeoutCtx.Err()
doneError(e) == IF e = DeadlineExceeded THEN ErrTimeout ELSE e

\* Timeout.Execute has not been called; the parent handle is live
TimeoutIdle ==
    /\ tpc = "idle"
    /\ fpc = "none"
    /\ fres = Nil
    /\ errChan = << >>
    /\ tctx = Nil
    /\ pctx = Nil
    /\ tdeadline = 0
    /\ tret = Nil
\* the variables of a program that never calls Timeout.Execute
TimeoutParked == tdur = 1 /\ pdeadline = 0 /\ TimeoutIdle

(***************************************************************************)
(* Executor (src/unnamed/part_000): ExecuteWithResult wraps the operation  *)
(* in the enabled layers.  The Executor's primitives are the breaker cb,   *)
(* the limiter rl, the bulkhead (sem, queue, sendq), the retry rconfig and *)
(* the timeout tdur.  A call is a record:                                  *)
(*   pc    where the caller's goroutine is: "idle"; "rl", "rlfailed",      *)
(*         "rlsleep" in rateLimiter.Wait; "bh", "bhpolled", "bhqueued",    *)
(*         "bhparked" in bulkhead.Execute before fn; "to" before           *)
(*         timeout.Execute, "tsel" before its select, "twait" blocked in   *)
(*         it, "tdone" in its case <-timeoutCtx.Done(); "inner" running    *)
(*         the inner layers itself (no timeout);                           *)
(*         "release", "leave" in the deferred receives of the bulkhead;    *)
(*         "done"                                                          *)
(*   ipc   where the inner layers (breaker, retry, operation) are, run by  *)
(*         the goroutine of timeout.Execute or by the caller: "none";      *)
(*         "start" the goroutine not yet running; "cb" before              *)
(*         beforeRequest; "op" inside the operation;                       *)
(*         "resleep" in the select of retry.Execute; "cbafter" before      *)
(*         afterRequest; "write" before the assignment to the timeout      *)
(*         wrapper's result; "send" before errChan <- ; "exited"           *)
(*   q     the call holds a token of b.queue                               *)
(*   pctx, tctx   Err() of the caller's handle and of the derived handle   *)
(*   tdl   the deadline of the derived handle (0: not derived)             *)
(*   ch    the buffer of errChan                                           *)
(*   tres  the variable result of the timeout wrapper (line 151)           *)
(*   ival, ierr   value and error in the inner layers (ierr is lastErr     *)
(*         inside retry.Execute)                                           *)
(*   att, ninv    the loop variable of retry.Execute; invocations so far   *)
(*   gen   the generation beforeRequest returned                           *)
(*   wake  expiry of the timer of rateLimiter.Wait                         *)
(*   res   value and error going up through the outer layers; at "done",   *)
(*         what ExecuteWithResult returned                                 *)
(*   tok, rep, adm, opret   history: tokens taken, the outcomes passed to  *)
(*         afterRequest, admitted by the breaker, what the last            *)
(*         invocation of the operation returned                            *)
(***************************************************************************)
ExecCallers == 1..NumExecCallers
\* the caller followed when the other calls are anonymous
Solo == { 1 }

Layers == [ rl : BOOLEAN, bh : BOOLEAN, to : BOOLEAN, cb : BOOLEAN, re : BOOLEAN ]
NoLayers == [ rl |-> FALSE, bh |-> FALSE, to |-> FALSE, cb |-> FALSE, re |-> FALSE ]

\* the nil value of type any; the k-th invocation of the operation returns
\* the value k or nil
NilValue == 0
\* what the k-th invocation of the operation returns: (value, error)
OpReturns(k) == [ val : { NilValue, k }, err : Returns(k) ]

\* the error value of the breaker's sentinel
asError(s) == IF s = NoError THEN Nil ELSE [ kind |-> s, id |-> 0, retryable |-> FALSE ]

IdleCall ==
    [ pc |-> "idle", ipc |-> "none", q |-> FALSE, pctx |-> Nil, tctx |-> Nil, tdl |-> 0,
      ch |-> << >>, tres |-> NilValue, ival |-> NilValue, ierr |-> Nil, att |-> 0,
      ninv |-> 0, gen |-> 0, wake |-> 0, res |-> [ val |-> NilValue, err |-> Nil ],
      tok |-> 0, rep |-> << >>, adm |-> FALSE, opret |-> [ val |-> NilValue, err |-> Nil ] ]

\* the handle the inner layers are called with
innerCtx(h, c) == IF h.to THEN c.tctx ELSE c.pctx

\* ExecuteWithResult returns (value, error)
returns(c, v, e) == [c EXCEPT !.pc = "done", !.res = [ val |-> v, err |-> e ]]

\* the bulkhead wrapper (lines 164-171) has the result of its fn: the
\* deferred receives of bulkhead.Execute come next
leaveTimeout(h, c, v, e) ==
    IF h.bh
    THEN [c EXCEPT !.pc = "release", !.res = [ val |-> v, err |-> e ]]
    ELSE returns(c, v, e)

\* faulty variant: the wrapper returns nil for the value
C33_mutant_innerDone(h, c) ==
    IF h.to
    THEN [c EXCEPT !.ipc = "write", !.ival = NilValue]
    ELSE leaveTimeout(h, [c EXCEPT !.ipc = "exited"], NilValue, c.ierr)

\* the circuit-breaker wrapper (lines 136-143) returns (result, err): to the
\* timeout wrapper's closure inside the goroutine (line 154), or to the caller
innerDone(h, c) ==
    IF h.to
    THEN [c EXCEPT !.ipc = "write"]
    ELSE leaveTimeout(h, [c EXCEPT !.ipc = "exited"], c.ival, c.ierr)

\* faulty variant: the outcome of a call is not reported to the breaker
C39_mutant_retryDone(h, c, e) == innerDone(h, [c EXCEPT !.ierr = e])
\* faulty variant: circuitBreaker.Execute returns without afterRequest
C34_mutant_retryDone(h, c, e) == innerDone(h, [c EXCEPT !.ierr = e])
\* retry.Execute returned e (or the operation did, without retry): the
\* breaker's afterRequest comes next
retryDone(h, c, e) ==
    IF h.cb
    THEN [c EXCEPT !.ipc = "cbafter", !.ierr = e]
    ELSE innerDone(h, [c EXCEPT !.ierr = e])

\* the operation is invoked: originalFn(ctx) at line 126 (140, 154, 168, 182)
invoke(c) == [c EXCEPT !.ipc = "op", !.ninv = @ + 1]

\* retry.Execute at the head of its loop
retryLoop(h, cfg, c) ==
    IF loopCondition(cfg, c.att) THEN invoke(c) ELSE retryDone(h, c, exhausted(c.ierr))

\* the breaker admitted the call (or there is none): retry.Execute, or the operation
afterBreaker(h, cfg, c) == IF h.re THEN retryLoop(h, cfg, c) ELSE invoke(c)

\* the inner layers start: circuitBreaker.Execute, or what it would wrap
innerEntry(h, cfg, c) == IF h.cb THEN [c EXCEPT !.ipc = "cb"] ELSE afterBreaker(h, cfg, c)

\* the bulkhead gave the call an active slot (or there is none): the timeout
\* wrapper, or the inner layers on the caller's goroutine
afterBulkhead(h, cfg, c) ==
    IF h.to THEN [c EXCEPT !.pc = "to"] ELSE innerEntry(h, cfg, [c EXCEPT !.pc = "inner"])

\* faulty variant: the bulkhead is entered although Wait returned an error
C32_mutant_waitFailed(c, e) == [c EXCEPT !.pc = "bh"]
\* if err := e.rateLimiter.Wait(ctx); err != nil { return nil, err }
waitFailed(c, e) == returns(c, NilValue, e)

\* faulty variant: the bulkhead wrapper does not call bulkhead.Execute
C38_mutant_afterLimiter(h, cfg, c) == afterBulkhead(h, cfg, c)
\* faulty variant: the bulkhead wrapper is left out of the chain
C31_mutant_afterLimiter(h, cfg, c) == [c EXCEPT !.pc = "to"]
\* rateLimiter.Wait returned nil (or there is no limiter): wrappedFn(ctx)
afterLimiter(h, cfg, c) == IF h.bh THEN [c EXCEPT !.pc = "bh"] ELSE afterBulkhead(h, cfg, c)

\* ExecuteWithResult is called
callerEntry(h, cfg, c) == IF h.rl THEN [c EXCEPT !.pc = "rl"] ELSE afterLimiter(h, cfg, c)

\* timeout.Execute returns from case <-timeoutCtx.Done() and the wrapper
\* returns (result, err), line 157
timedOut(h, c, e) == leaveTimeout(h, c, c.tres, doneError(e))

\* the handle of the inner layers is done with e: retry.Execute blocked in its
\* select returns ctx.Err()
wakeInner(h, c, e) ==
    IF c.ipc = "resleep" THEN retryDone(h, c, cancelled(e, c.ierr)) ELSE c

\* the caller's handle is done with e: what that does to a blocked caller, to
\* the derived handle and to the goroutines blocked on it
cancelCall(h, c0, e) ==
    LET c == [c0 EXCEPT !.pctx = e]
    IN  CASE c.pc = "rlsleep" -> waitFailed([c EXCEPT !.wake = 0], interrupted(e))
          [] c.pc = "bhparked" ->
                 [c EXCEPT !.pc = "leave", !.res = [ val |-> NilValue, err |-> e ]]
          [] c.pc \in {"tsel", "twait"} /\ c.tctx = Nil ->
                 LET c1 == wakeInner(h, [c EXCEPT !.tctx = e], e)
                 IN  IF c.pc = "twait" THEN [c1 EXCEPT !.pc = "tdone"] ELSE c1
          [] OTHER -> IF h.to THEN c ELSE wakeInner(h, c, e)

\* the deadline of the derived handle passes
expireCall(h, c0) ==
    LET c == wakeInner(h, [c0 EXCEPT !.tctx = DeadlineExceeded], DeadlineExceeded)
    IN  IF c.pc = "twait" THEN [c EXCEPT !.pc = "tdone"] ELSE c

\* no call of ExecuteWithResult yet
ExecParked == has = NoLayers /\ others = 0 /\ call = [p \in ExecCallers |-> IdleCall]

RestParked == LimiterParked /\ TimeoutParked /\ ExecParked


(***************************************************************************)
(* The state machine.                                                      *)
(***************************************************************************)
InitBreaker ==
    /\ config \in CircuitBreakerConfig
    /\ clock = 1
    /\ cb = NewCircuitBreaker(1)
    /\ pc = [p \in Callers |-> "idle"]
    /\ gen = [p \in Callers |-> 0]
    /\ last = [op |-> "NewCircuitBreaker", err |-> NoError]
    /\ probe = [p \in Callers |-> FALSE]
    /\ stale = [p \in Callers |-> FALSE]
    /\ hoAdmitted = 0
    /\ hoSuccesses = 0

Init == InitBreaker /\ LockParked /\ RetryParked /\ BulkheadParked /\ RestParked

\* time passes
Tick ==
    /\ clock < MaxClock
    /\ clock' = clock + 1
    /\ UNCHANGED << config, cb, pc, gen, last, probe, stale, hoAdmitted, hoSuccesses >>
    /\ UNCHANGED offBreaker

\* callers in flight whose generation ends with this step
Ended(b, me) == [q \in Callers |-> IF q # me /\ pc[q] = "fn" /\ b.newGen THEN TRUE ELSE stale[q]]

\* Execute, first half: cb.beforeRequest(), and on admission the call of fn(ctx)
ExecuteBefore(p) ==
    /\ pc[p] = "idle"
    /\ LET r == beforeRequest(config, cb, clock)
       IN  /\ r.cb.counts.requests <= MaxCount
           /\ cb' = r.cb
           /\ last' = [op |-> "beforeRequest", err |-> r.err]
           /\ IF r.err = NoError
              THEN /\ pc' = [pc EXCEPT ![p] = "fn"]
                   /\ gen' = [gen EXCEPT ![p] = r.generation]
                   /\ probe' = [probe EXCEPT ![p] = (cb.state = StateOpen)]
                   /\ stale' = [Ended(r.cb, p) EXCEPT ![p] = FALSE]
                   /\ hoAdmitted' = IF cb.state = StateHalfOpen THEN hoAdmitted + 1 ELSE 0
                   /\ hoSuccesses' = IF cb.state = StateHalfOpen THEN hoSuccesses ELSE 0
              ELSE UNCHANGED << pc, gen, probe, stale, hoAdmitted, hoSuccesses >>
    /\ UNCHANGED << config, clock >>
    /\ UNCHANGED offBreaker

\* Execute, second half: fn(ctx) returns (success or an error) and cb.afterRequest() records it
ExecuteAfter(p, success) ==
    /\ pc[p] = "fn"
    /\ cb' = afterRequest(config, cb, gen[p], success, clock)
    /\ pc' = [pc EXCEPT ![p] = "idle"]
    /\ gen' = [gen EXCEPT ![p] = 0]
    /\ last' = [op |-> "afterRequest", err |-> IF success THEN NoError ELSE OpError]
    /\ probe' = [probe EXCEPT ![p] = FALSE]
    /\ stale' = [Ended(cb', p) EXCEPT ![p] = FALSE]
    /\ hoAdmitted' = IF cb'.state # cb.state THEN 0 ELSE hoAdmitted
    /\ hoSuccesses' =
          IF cb'.state # cb.state \/ cb.state # StateHalfOpen \/ stale[p] THEN
              IF cb'.state # cb.state THEN 0 ELSE hoSuccesses
          ELSE IF success THEN hoSuccesses + 1 ELSE 0
    /\ UNCHANGED << config, clock >>
    /\ UNCHANGED offBreaker

\* a goroutine calls cb.Reset()
DoReset ==
    /\ cb' = Reset(config, cb, clock)
    /\ last' = [op |-> "Reset", err |-> NoError]
    /\ stale' = Ended(cb', 0)
    /\ hoAdmitted' = 0
    /\ hoSuccesses' = 0
    /\ UNCHANGED << config, clock, pc, gen, probe >>
    /\ UNCHANGED offBreaker

Next ==
    \/ Tick
    \/ \E p \in Callers : ExecuteBefore(p)
    \/ \E p \in Callers : \E success \in BOOLEAN : ExecuteAfter(p, success)
    \/ DoReset

Spec == Init /\ [][Next]_vars

(***************************************************************************)
(* The same breaker, and the rate limiter, at the level of their mutexes:  *)
(* a method is Lock, body, callback (called by the body), deferred Unlock. *)
(* sync.Mutex and sync.RWMutex are not reentrant.                          *)
(***************************************************************************)
\* the frame goroutine p is executing; "user" is code outside the primitives
Top(p) == IF at[p] = << >> THEN "user" ELSE at[p][Len(at[p])]
Push(p, frames) == [at EXCEPT ![p] = @ \o frames]
Pop(p) == [at EXCEPT ![p] = SubSeq(@, 1, Len(@) - 1)]
Swap(p, frames) == [at EXCEPT ![p] = SubSeq(@, 1, Len(@) - 1) \o frames]
\* after a method body: the deferred Unlock is pending, and the callback runs first if called
AfterBody(p, unlock, callback, called) ==
    Swap(p, IF called THEN << unlock, callback >> ELSE << unlock >>)

offLock ==
    << last, probe, stale, hoAdmitted, hoSuccesses, rlconfig, config, retryVars, bulkheadVars,
       restVars >>

InitLock ==
    /\ InitBreaker
    /\ RetryParked
    /\ BulkheadParked
    /\ RestParked
    /\ LockFree
    /\ rlconfig \in RateLimiterConfig
    /\ rl = NewRateLimiter(rlconfig, 1)

\* a callback calls back into its primitive and reaches the Lock() there:
\* Execute (beforeRequest, afterRequest) and Reset take cb.mu.Lock(), State()
\* takes cb.mu.RLock(), Allow() takes rl.mu.Lock()
LockCall(p, f) ==
    /\ \/ Top(p) = "OnStateChange" /\ f \in {"cb.Lock", "cb.RLock"}
       \/ Top(p) = "OnRateLimit" /\ f = "rl.Lock"
    /\ at' = Push(p, << f >>)
    /\ UNCHANGED << cb, clock, pc, gen, mu, rl >>
    /\ UNCHANGED offLock

\* cb.mu.Lock() returns: to user code that calls Execute or Reset now, or to
\* a goroutine that waits in Lock()
LockAcquire(p) ==
    /\ Top(p) \in {"user", "cb.Lock"}
    /\ mu.cb = 0
    /\ mu' = [mu EXCEPT !.cb = p]
    /\ at' = IF Top(p) = "user" THEN Push(p, << "cb.held" >>) ELSE Swap(p, << "cb.held" >>)
    /\ UNCHANGED << cb, clock, pc, gen, rl >>
    /\ UNCHANGED offLock

\* State(): RLock, read cb.state, RUnlock, return
StateRead(p) ==
    /\ Top(p) \in {"user", "cb.RLock"}
    /\ mu.cb = 0
    /\ at' = IF Top(p) = "user" THEN at ELSE Pop(p)
    /\ UNCHANGED << cb, clock, pc, gen, mu, rl >>
    /\ UNCHANGED offLock

\* the body of beforeRequest, up to its call of OnStateChange
LockBefore(p) ==
    /\ Top(p) = "cb.held"
    /\ pc[p] = "idle"
    /\ LET r == beforeRequest(config, cb, clock)
       IN  /\ r.cb.counts.requests <= MaxCount
           /\ cb' = r.cb
           /\ pc' = [pc EXCEPT ![p] = IF r.err = NoError THEN "fn" ELSE "idle"]
           /\ gen' = [gen EXCEPT ![p] = IF r.err = NoError THEN r.generation ELSE 0]
           /\ at' = AfterBody(p, "cb.Unlock", "OnStateChange", r.cb.fired # << >>)
    /\ UNCHANGED << clock, mu, rl >>
    /\ UNCHANGED offLock

\* the body of afterRequest, up to its call of OnStateChange
LockAfter(p, success) ==
    /\ Top(p) = "cb.held"
    /\ pc[p] = "fn"
    /\ cb' = afterRequest(config, cb, gen[p], success, clock)
    /\ pc' = [pc EXCEPT ![p] = "idle"]
    /\ gen' = [gen EXCEPT ![p] = 0]
    /\ at' = AfterBody(p, "cb.Unlock", "OnStateChange", cb'.fired # << >>)
    /\ UNCHANGED << clock, mu, rl >>
    /\ UNCHANGED offLock

\* the body of Reset, up to its call of OnStateChange
LockReset(p) ==
    /\ Top(p) = "cb.held"
    /\ pc[p] = "idle"
    /\ cb' = Reset(config, cb, clock)
    /\ at' = AfterBody(p, "cb.Unlock", "OnStateChange", cb'.fired # << >>)
    /\ UNCHANGED << clock, pc, gen, mu, rl >>
    /\ UNCHANGED offLock

\* the callback returns to the method that called it
CallbackReturns(p) ==
    /\ Top(p) \in {"OnStateChange", "OnRateLimit"}
    /\ at' = Pop(p)
    /\ UNCHANGED << cb, clock, pc, gen, mu, rl >>
    /\ UNCHANGED offLock

\* defer cb.mu.Unlock()
LockRelease(p) ==
    /\ Top(p) = "cb.Unlock"
    /\ mu' = [mu EXCEPT !.cb = 0]
    /\ at' = Pop(p)
    /\ UNCHANGED << cb, clock, pc, gen, rl >>
    /\ UNCHANGED offLock

\* rl.mu.Lock() returns: to user code that calls Allow() now, or to a goroutine
\* that waits in Lock()
AllowAcquire(p) ==
    /\ Top(p) \in {"user", "rl.Lock"}
    /\ mu.rl = 0
    /\ mu' = [mu EXCEPT !.rl = p]
    /\ at' = IF Top(p) = "user" THEN Push(p, << "rl.held" >>) ELSE Swap(p, << "rl.held" >>)
    /\ UNCHANGED << cb, clock, pc, gen, rl >>
    /\ UNCHANGED offLock

\* the body of Allow, up to its call of OnRateLimit
AllowBody(p) ==
    /\ Top(p) = "rl.held"
    /\ LET r == Allow(rlconfig, rl, clock)
       IN  /\ rl' = r.rl
           /\ at' = AfterBody(p, "rl.Unlock", "OnRateLimit", r.fired)
    /\ UNCHANGED << cb, clock, pc, gen, mu >>
    /\ UNCHANGED offLock

\* defer rl.mu.Unlock()
AllowRelease(p) ==
    /\ Top(p) = "rl.Unlock"
    /\ mu' = [mu EXCEPT !.rl = 0]
    /\ at' = Pop(p)
    /\ UNCHANGED << cb, clock, pc, gen, rl >>
    /\ UNCHANGED offLock

NextLock ==
    \/ Tick
    \/ \E p \in Callers : \E f \in {"cb.Lock", "cb.RLock", "rl.Lock"} : LockCall(p, f)
    \/ \E p \in Callers : LockAcquire(p)
    \/ \E p \in Callers : StateRead(p)
    \/ \E p \in Callers : LockBefore(p)
    \/ \E p \in Callers : \E success \in BOOLEAN : LockAfter(p, success)
    \/ \E p \in Callers : LockReset(p)
    \/ \E p \in Callers : CallbackReturns(p)
    \/ \E p \in Callers : LockRelease(p)
    \/ \E p \in Callers : AllowAcquire(p)
    \/ \E p \in Callers : AllowBody(p)
    \/ \E p \in Callers : AllowRelease(p)

lockAll == << vars, lockVars >>
SpecLock == InitLock /\ [][NextLock]_lockAll

(***************************************************************************)
(* Retry.Execute(ctx, fn): one call, with the handle cancelled (or its     *)
(* deadline passing) at any moment.                                        *)
(***************************************************************************)
\* a breaker that nobody calls
BreakerParked ==
    /\ InitBreaker
    /\ config = [ MaxRequests |-> 1, MinRequests |-> 1, Timeout |-> TimeoutTicks,
                  Interval |-> IntervalTicks, FailureThreshold |-> <<1, 2>> ]

offRetry == << vars, lockVars, bulkheadVars, restVars >>

InitRetry ==
    /\ BreakerParked
    /\ LockParked
    /\ BulkheadParked
    /\ RestParked
    /\ rconfig \in { NewRetry(cfg) : cfg \in RetryConfig }
    /\ RetryIdle

\* Execute is called: var lastErr error; attempt := 0
RetryExecute ==
    /\ rpc = "idle"
    /\ rpc' = "loop"
    /\ UNCHANGED << rconfig, attempt, lastErr, ctxErr, doneAtEntry, ret, outcomes,
                    onRetry, sleeps, asleepCancel >>
    /\ UNCHANGED offRetry

\* one pass of the loop, from its condition to the select (or to a return):
\* fn(ctx) returns err
RetryAttempt(err) ==
    /\ rpc = "loop"
    /\ IF ~ loopCondition(rconfig, attempt) THEN
           /\ rpc' = "done"
           /\ ret' = exhausted(lastErr)
           /\ UNCHANGED << lastErr, doneAtEntry, outcomes, onRetry, sleeps >>
       ELSE
           /\ outcomes' = Append(outcomes, err)
           /\ IF succeeded(err) THEN
                  /\ rpc' = "done"
                  /\ ret' = Nil
                  /\ UNCHANGED << lastErr, doneAtEntry, onRetry, sleeps >>
              ELSE IF shouldStop(rconfig, err) THEN
                  /\ rpc' = "done"
                  /\ ret' = err
                  /\ lastErr' = err
                  /\ UNCHANGED << doneAtEntry, onRetry, sleeps >>
              ELSE IF lastAttempt(rconfig, attempt) THEN
                  /\ rpc' = "done"
                  /\ ret' = exhausted(err)
                  /\ lastErr' = err
                  /\ UNCHANGED << doneAtEntry, onRetry, sleeps >>
              ELSE
                  /\ rpc' = "sleep"
                  /\ lastErr' = err
                  /\ onRetry' = Append(onRetry, << attempt + 1, err >>)
                  /\ sleeps' = sleeps + 1
                  /\ doneAtEntry' = (ctxErr # Nil)
                  /\ UNCHANGED ret
    /\ UNCHANGED << rconfig, attempt, ctxErr, asleepCancel >>
    /\ UNCHANGED offRetry

\* case <-time.After(delay): the goroutine sleeping in the select is woken by
\* the timer; if ctx.Done() was closed before the select was entered and the
\* timer has fired by then too, the select may take either case
RetryTimer ==
    /\ rpc = "sleep"
    /\ ctxErr = Nil \/ doneAtEntry
    /\ rpc' = "loop"
    /\ attempt' = attempt + 1
    /\ UNCHANGED << rconfig, lastErr, ctxErr, doneAtEntry, ret, outcomes, onRetry,
                    sleeps, asleepCancel >>
    /\ UNCHANGED offRetry

\* case <-ctx.Done(): return ctx.Err()
RetryCtxDone ==
    /\ rpc = "sleep"
    /\ ctxErr # Nil
    /\ rpc' = "done"
    /\ ret' = cancelled(ctxErr, lastErr)
    /\ UNCHANGED << rconfig, attempt, lastErr, ctxErr, doneAtEntry, outcomes, onRetry,
                    sleeps, asleepCancel >>
    /\ UNCHANGED offRetry

\* the handle is cancelled, or its deadline passes
RetryCancel(cerr) ==
    /\ rpc \in {"idle", "loop", "sleep"}
    /\ ctxErr = Nil
    /\ ctxErr' = cerr
    /\ asleepCancel' = (rpc = "sleep")
    /\ UNCHANGED << rconfig, rpc, attempt, lastErr, doneAtEntry, ret, outcomes, onRetry,
                    sleeps >>
    /\ UNCHANGED offRetry

NextRetry ==
    \/ RetryExecute
    \/ \E err \in Returns(attempt + 1) : RetryAttempt(err)
    \/ RetryTimer
    \/ RetryCtxDone
    \/ \E cerr \in {Canceled, DeadlineExceeded} : RetryCancel(cerr)

retryAll == << vars, lockVars, retryVars >>
SpecRetry == InitRetry /\ [][NextRetry]_retryAll

(***************************************************************************)
(* Bulkhead.Execute(ctx, fn), called concurrently.  A goroutine is at:     *)
(*   "idle"    outside Execute                                             *)
(*   "polled"  the send on b.sem would block: in the default branch        *)
(*   "queued"  a token sent to b.queue: before the inner select            *)
(*   "parked"  blocked in the inner select (on b.sem and ctx.Done())       *)
(*   "run"     in fn(ctx), with a token in b.sem                           *)
(*   "runq"    in fn(ctx), with a token in b.sem and one in b.queue        *)
(*   "leave"   about to run the deferred <-b.queue and return              *)
(***************************************************************************)
offBulkhead == << vars, lockVars, retryVars, bgiven, bconfig, restVars >>

InitBulkhead ==
    /\ BreakerParked
    /\ LockParked
    /\ RetryParked
    /\ RestParked
    /\ bgiven \in BulkheadConfig
    /\ BulkheadEmpty

\* the outer select: case b.sem <- struct{}{} (and fn is called), else default
BulkArrive(p) ==
    /\ bpc[p] = "idle"
    /\ IF sem < bconfig.MaxConcurrent
       THEN /\ sem' = sem + 1
            /\ bpc' = [bpc EXCEPT ![p] = "run"]
            /\ fnres' = [fnres EXCEPT ![p] = Running]
       ELSE /\ sem' = sem
            /\ bpc' = [bpc EXCEPT ![p] = "polled"]
            /\ fnres' = fnres
    /\ UNCHANGED << queue, sendq, bctx, regq, bret >>
    /\ UNCHANGED offBulkhead

\* the second select: case b.queue <- struct{}{}, else OnBulkheadFull and
\* return ErrBulkheadFull
BulkQueue(p) ==
    /\ bpc[p] = "polled"
    /\ IF queue < bconfig.MaxQueueSize
       THEN /\ queue' = queue + 1
            /\ bpc' = [bpc EXCEPT ![p] = "queued"]
            /\ regq' = Append(regq, p)
            /\ UNCHANGED << bctx, bret >>
       ELSE /\ queue' = queue
            /\ bpc' = [bpc EXCEPT ![p] = "idle"]
            /\ bctx' = [bctx EXCEPT ![p] = Nil]
            /\ bret' = ErrBulkheadFull
            /\ regq' = regq
    /\ UNCHANGED << sem, sendq, fnres >>
    /\ UNCHANGED offBulkhead

\* the inner select is entered with room in b.sem: case b.sem <- struct{}{}
\* can proceed (when ctx.Done() is closed as well, either case is taken)
BulkSelectSlot(p) ==
    /\ bpc[p] = "queued"
    /\ sem < bconfig.MaxConcurrent
    /\ sem' = sem + 1
    /\ bpc' = [bpc EXCEPT ![p] = "runq"]
    /\ fnres' = [fnres EXCEPT ![p] = Running]
    /\ regq' = without(regq, p)
    /\ UNCHANGED << queue, sendq, bctx, bret >>
    /\ UNCHANGED offBulkhead

\* the inner select is entered with ctx.Done() closed: case <-ctx.Done()
BulkSelectDone(p) ==
    /\ bpc[p] = "queued"
    /\ bctx[p] # Nil
    /\ bpc' = [bpc EXCEPT ![p] = "leave"]
    /\ regq' = without(regq, p)
    /\ UNCHANGED << sem, queue, sendq, bctx, fnres, bret >>
    /\ UNCHANGED offBulkhead

\* the inner select is entered and no case can proceed: the goroutine parks
BulkSelectPark(p) ==
    /\ bpc[p] = "queued"
    /\ ~ (sem < bconfig.MaxConcurrent)
    /\ bctx[p] = Nil
    /\ sendq' = Append(sendq, p)
    /\ bpc' = [bpc EXCEPT ![p] = "parked"]
    /\ UNCHANGED << sem, queue, bctx, fnres, regq, bret >>
    /\ UNCHANGED offBulkhead

\* the handle of p's call is cancelled, at a moment at which Execute has yet
\* to look at it (later it is only handed to fn); a goroutine parked in the
\* select is woken with case <-ctx.Done() and is no longer a sender on b.sem
BulkCancel(p, cerr) ==
    /\ bpc[p] \in {"queued", "parked"}
    /\ bctx[p] = Nil
    /\ bctx' = [bctx EXCEPT ![p] = cerr]
    /\ IF bpc[p] = "parked"
       THEN /\ sendq' = without(sendq, p)
            /\ regq' = without(regq, p)
            /\ bpc' = [bpc EXCEPT ![p] = "leave"]
       ELSE UNCHANGED << sendq, regq, bpc >>
    /\ UNCHANGED << sem, queue, fnres, bret >>
    /\ UNCHANGED offBulkhead

\* fn(ctx) returns r and the deferred <-b.sem runs: the receive hands the slot
\* to the first goroutine parked in the send on b.sem, if there is one, which
\* calls fn; on the fast path Execute returns r
BulkRelease(p, r) ==
    /\ bpc[p] \in {"run", "runq"}
    /\ IF sendq = << >>
       THEN /\ sem' = sem - 1
            /\ bpc' = [bpc EXCEPT ![p] = IF bpc[p] = "run" THEN "idle" ELSE "leave"]
            /\ fnres' = [fnres EXCEPT ![p] = IF bpc[p] = "run" THEN NotCalled ELSE r]
            /\ UNCHANGED << sendq, regq >>
       ELSE /\ sem' = sem
            /\ bpc' = [bpc EXCEPT ![p] = IF bpc[p] = "run" THEN "idle" ELSE "leave",
                                  ![Head(sendq)] = "runq"]
            /\ fnres' = [fnres EXCEPT ![p] = IF bpc[p] = "run" THEN NotCalled ELSE r,
                                      ![Head(sendq)] = Running]
            /\ sendq' = Tail(sendq)
            /\ regq' = without(regq, Head(sendq))
    /\ IF bpc[p] = "run"
       THEN /\ bctx' = [bctx EXCEPT ![p] = Nil]
            /\ bret' = r
       ELSE UNCHANGED << bctx, bret >>
    /\ queue' = queue
    /\ UNCHANGED offBulkhead

\* the deferred <-b.queue runs and Execute returns: what fn returned, or
\* ctx.Err() when the select took case <-ctx.Done()
BulkLeave(p) ==
    /\ bpc[p] = "leave"
    /\ queue' = releaseQueue(queue)
    /\ bpc' = [bpc EXCEPT ![p] = "idle"]
    /\ bret' = executeReturns(fnres[p], bctx[p])
    /\ bctx' = [bctx EXCEPT ![p] = Nil]
    /\ fnres' = [fnres EXCEPT ![p] = NotCalled]
    /\ UNCHANGED << sem, sendq, regq >>
    /\ UNCHANGED offBulkhead

NextBulkhead ==
    \/ \E p \in BulkheadCallers : BulkArrive(p)
    \/ \E p \in BulkheadCallers : BulkQueue(p)
    \/ \E p \in BulkheadCallers : BulkSelectSlot(p)
    \/ \E p \in BulkheadCallers : BulkSelectDone(p)
    \/ \E p \in BulkheadCallers : BulkSelectPark(p)
    \/ \E p \in BulkheadCallers, cerr \in CtxErrors : BulkCancel(p, cerr)
    \/ \E p \in BulkheadCallers, r \in FnResults : BulkRelease(p, r)
    \/ \E p \in BulkheadCallers : BulkLeave(p)

bulkheadAll == << vars, lockVars, retryVars, bulkheadVars >>
SpecBulkhead == InitBulkhead /\ [][NextBulkhead]_bulkheadAll

\* the calls of Execute whose handles are never cancelled, each goroutine
\* inside Execute scheduled again and again and every fn(ctx) returning;
\* whether and when a goroutine calls Execute is left open
NextBulkheadLive ==
    \/ \E p \in BulkheadCallers : BulkArrive(p)
    \/ \E p \in BulkheadCallers : BulkQueue(p)
    \/ \E p \in BulkheadCallers : BulkSelectSlot(p)
    \/ \E p \in BulkheadCallers : BulkSelectPark(p)
    \/ \E p \in BulkheadCallers, r \in FnResults : BulkRelease(p, r)
    \/ \E p \in BulkheadCallers : BulkLeave(p)

FairBulkhead ==
    \A p \in BulkheadCallers :
        /\ WF_bulkheadAll(BulkQueue(p))
        /\ WF_bulkheadAll(BulkSelectSlot(p) \/ BulkSelectPark(p))
        /\ WF_bulkheadAll(\E r \in FnResults : BulkRelease(p, r))
        /\ WF_bulkheadAll(BulkLeave(p))

SpecBulkheadLive == InitBulkhead /\ [][NextBulkheadLive]_bulkheadAll /\ FairBulkhead

(***************************************************************************)
(* Allow() and Wait(ctx) called concurrently on one limiter.  Allow runs   *)
(* under rl.mu and is one step.  A goroutine in Wait is at:                *)
(*   "idle"    outside Wait                                                *)
(*   "try"     at the top of the loop, about to call rl.Allow()            *)
(*   "failed"  Allow returned false: about to call nextTokenDuration and   *)
(*             enter the select                                            *)
(*   "sleep"   blocked in the select on time.After(waitTime), ctx.Done()   *)
(***************************************************************************)
offLimiter ==
    << config, cb, pc, gen, last, probe, stale, hoAdmitted, hoSuccesses, mu, at,
       rlconfig, retryVars, bulkheadVars, timeoutVars, execVars >>

InitLimiter ==
    /\ BreakerParked
    /\ LockFree
    /\ RetryParked
    /\ BulkheadParked
    /\ rlconfig \in LimiterConfig
    /\ rl = NewRateLimiter(rlconfig, 1)
    /\ LimiterIdle
    /\ TimeoutParked
    /\ ExecParked

\* the grants so far, with one more at the clock reading `now` when ok
granted(ok, now) == IF ok THEN [grants EXCEPT ![now] = @ + 1] ELSE grants

\* a goroutine calls rl.Allow()
LimAllow ==
    /\ LET r == Allow(rlconfig, rl, clock)
       IN  /\ rl' = r.rl
           /\ lres' = [ ok |-> r.ok, fired |-> r.fired ]
           /\ grants' = granted(r.ok, clock)
    /\ UNCHANGED << clock, wpc, wctx, wake, wtook, wret >>
    /\ UNCHANGED offLimiter

\* rl.Wait(ctx) is called, with a handle that may be cancelled already
WaitCall(p, c) ==
    /\ wpc[p] = "idle"
    /\ wpc' = [wpc EXCEPT ![p] = "try"]
    /\ wctx' = [wctx EXCEPT ![p] = c]
    /\ UNCHANGED << clock, rl, wake, wtook, wret, lres, grants >>
    /\ UNCHANGED offLimiter

\* if rl.Allow() { return nil }
WaitAllow(p) ==
    /\ wpc[p] = "try"
    /\ LET r == Allow(rlconfig, rl, clock)
           took == wtook[p] + (refillTokens(rlconfig, rl, clock).tokens - r.rl.tokens)
       IN  /\ rl' = r.rl
           /\ lres' = [ ok |-> r.ok, fired |-> r.fired ]
           /\ grants' = granted(r.ok, clock)
           /\ IF r.ok
              THEN /\ wpc' = [wpc EXCEPT ![p] = "idle"]
                   /\ wret' = [ err |-> Nil, took |-> took ]
                   /\ wtook' = [wtook EXCEPT ![p] = 0]
                   /\ wctx' = [wctx EXCEPT ![p] = Nil]
              ELSE /\ wpc' = [wpc EXCEPT ![p] = "failed"]
                   /\ wtook' = [wtook EXCEPT ![p] = took]
                   /\ UNCHANGED << wret, wctx >>
    /\ UNCHANGED << clock, wake >>
    /\ UNCHANGED offLimiter

\* waitTime := rl.nextTokenDuration() and the select is entered with
\* ctx.Done() closed: case <-ctx.Done(): return ctx.Err()
WaitDone(p) ==
    /\ wpc[p] = "failed"
    /\ wctx[p] # Nil
    /\ wpc' = [wpc EXCEPT ![p] = "idle"]
    /\ wret' = [ err |-> interrupted(wctx[p]), took |-> wtook[p] ]
    /\ wtook' = [wtook EXCEPT ![p] = 0]
    /\ wctx' = [wctx EXCEPT ![p] = Nil]
    /\ UNCHANGED << clock, rl, wake, lres, grants >>
    /\ UNCHANGED offLimiter

\* waitTime := rl.nextTokenDuration() is 0 and the select is entered: the
\* timer of time.After(0) has fired (when ctx.Done() is closed as well,
\* either case is taken)
WaitNoSleep(p) ==
    /\ wpc[p] = "failed"
    /\ nextTokenDuration(rlconfig, rl) = 0
    /\ wpc' = [wpc EXCEPT ![p] = "try"]
    /\ UNCHANGED << clock, rl, wctx, wake, wtook, wret, lres, grants >>
    /\ UNCHANGED offLimiter

\* waitTime := rl.nextTokenDuration() and the select is entered with no case
\* ready: the goroutine blocks
WaitSleep(p) ==
    /\ wpc[p] = "failed"
    /\ wctx[p] = Nil
    /\ nextTokenDuration(rlconfig, rl) > 0
    /\ wpc' = [wpc EXCEPT ![p] = "sleep"]
    /\ wake' = [wake EXCEPT ![p] = clock + nextTokenDuration(rlconfig, rl)]
    /\ UNCHANGED << clock, rl, wctx, wtook, wret, lres, grants >>
    /\ UNCHANGED offLimiter

\* case <-time.After(waitTime): the timer fires, at its expiry or later, and
\* wakes the goroutine, which tries again
WaitTimer(p) ==
    /\ wpc[p] = "sleep"
    /\ clock >= wake[p]
    /\ wpc' = [wpc EXCEPT ![p] = "try"]
    /\ wake' = [wake EXCEPT ![p] = 0]
    /\ UNCHANGED << clock, rl, wctx, wtook, wret, lres, grants >>
    /\ UNCHANGED offLimiter

\* the handle of p's call is cancelled or its deadline passes; a goroutine
\* blocked in the select is woken with case <-ctx.Done() and returns ctx.Err()
WaitCancel(p, cerr) ==
    /\ wpc[p] # "idle"
    /\ wctx[p] = Nil
    /\ IF wpc[p] = "sleep"
       THEN /\ wpc' = [wpc EXCEPT ![p] = "idle"]
            /\ wret' = [ err |-> interrupted(cerr), took |-> wtook[p] ]
            /\ wake' = [wake EXCEPT ![p] = 0]
            /\ wtook' = [wtook EXCEPT ![p] = 0]
            /\ wctx' = wctx
       ELSE /\ wctx' = [wctx EXCEPT ![p] = cerr]
            /\ UNCHANGED << wpc, wret, wake, wtook >>
    /\ UNCHANGED << clock, rl, lres, grants >>
    /\ UNCHANGED offLimiter

NextLimiter ==
    \/ Tick
    \/ LimAllow
    \/ \E p \in WaitCallers, c \in { Nil } \cup CtxErrors : WaitCall(p, c)
    \/ \E p \in WaitCallers : WaitAllow(p)
    \/ \E p \in WaitCallers : WaitDone(p)
    \/ \E p \in WaitCallers : WaitNoSleep(p)
    \/ \E p \in WaitCallers : WaitSleep(p)
    \/ \E p \in WaitCallers : WaitTimer(p)
    \/ \E p \in WaitCallers, cerr \in CtxErrors : WaitCancel(p, cerr)

limiterAll == << vars, lockVars, retryVars, bulkheadVars, restVars >>
SpecLimiter == InitLimiter /\ [][NextLimiter]_limiterAll

(***************************************************************************)
(* One call of Timeout.Execute(ctx, fn).  Execute is at:                   *)
(*   "idle"     not called                                                 *)
(*   "started"  the handle derived and the goroutine started: before the   *)
(*              select                                                     *)
(*   "wait"     blocked in the select on errChan and timeoutCtx.Done()     *)
(*   "done"     returned (the deferred cancel() has run)                   *)
(* and the goroutine of line 40 is at "none", "running" (in fn),           *)
(* "returned" (fn returned fres: about to send it) or "exited".            *)
(* tctx and pctx are the Err() of the derived and of the parent handle;    *)
(* the parent's deadline pdeadline is 0 when it has none.                  *)
(***************************************************************************)
offTimeout ==
    << config, cb, pc, gen, last, probe, stale, hoAdmitted, hoSuccesses, lockVars,
       retryVars, bulkheadVars, limiterVars, tdur, pdeadline, execVars >>

InitTimeout ==
    /\ BreakerParked
    /\ LockParked
    /\ RetryParked
    /\ BulkheadParked
    /\ LimiterParked
    /\ tdur \in Durations
    /\ pdeadline \in 0..MaxClock
    /\ TimeoutIdle
    /\ ExecParked

\* context.WithTimeout(ctx, t.duration), errChan made, the goroutine started;
\* a handle derived from a parent that is done is done with the parent's error
\* (calls whose deadline lies beyond the last clock value are left out)
TimeoutCall ==
    /\ tpc = "idle"
    /\ clock + tdur <= MaxClock
    /\ tpc' = "started"
    /\ fpc' = "running"
    /\ tdeadline' = clock + tdur
    /\ tctx' = pctx
    /\ UNCHANGED << clock, fres, errChan, pctx, tret >>
    /\ UNCHANGED offTimeout

\* the select is entered with a value in errChan: case err := <-errChan
\* (when timeoutCtx.Done() is closed as well, either case is taken)
TimeoutSelectRecv ==
    /\ tpc = "started"
    /\ errChan # << >>
    /\ tret' = Head(errChan)
    /\ errChan' = Tail(errChan)
    /\ tpc' = "done"
    /\ tctx' = deferredCancel(tctx)
    /\ UNCHANGED << clock, fpc, fres, pctx, tdeadline >>
    /\ UNCHANGED offTimeout

\* the select is entered with timeoutCtx.Done() closed: case <-timeoutCtx.Done()
TimeoutSelectDone ==
    /\ tpc = "started"
    /\ tctx # Nil
    /\ tret' = doneError(tctx)
    /\ tpc' = "done"
    /\ tctx' = deferredCancel(tctx)
    /\ UNCHANGED << clock, fpc, fres, errChan, pctx, tdeadline >>
    /\ UNCHANGED offTimeout

\* the select is entered and no case can proceed: Execute blocks
TimeoutSelectPark ==
    /\ tpc = "started"
    /\ errChan = << >>
    /\ tctx = Nil
    /\ tpc' = "wait"
    /\ UNCHANGED << clock, fpc, fres, errChan, tctx, pctx, tdeadline, tret >>
    /\ UNCHANGED offTimeout

\* fn(timeoutCtx) returns r: its own result, or the error of the handle it
\* was given once that is done
FnReturn(r) ==
    /\ fpc = "running"
    /\ r \in FnResults \cup (IF tctx # Nil THEN { tctx } ELSE { })
    /\ fpc' = "returned"
    /\ fres' = r
    /\ UNCHANGED << clock, tpc, errChan, tctx, pctx, tdeadline, tret >>
    /\ UNCHANGED offTimeout

\* errChan <- fn(timeoutCtx): the value goes to Execute blocked in the select,
\* which returns it, or into the buffer when there is room; the goroutine ends
FnSend ==
    /\ fpc = "returned"
    /\ IF tpc = "wait"
       THEN /\ tpc' = "done"
            /\ tret' = fres
            /\ tctx' = deferredCancel(tctx)
            /\ errChan' = errChan
       ELSE /\ Len(errChan) < errChanCap
            /\ errChan' = Append(errChan, fres)
            /\ UNCHANGED << tpc, tret, tctx >>
    /\ fpc' = "exited"
    /\ UNCHANGED << clock, fres, pctx, tdeadline >>
    /\ UNCHANGED offTimeout

\* the timer of the derived handle fires, at its deadline or later; Execute
\* blocked in the select is woken with case <-timeoutCtx.Done()
DeadlineFires ==
    /\ tpc \in {"started", "wait"}
    /\ tctx = Nil
    /\ clock >= tdeadline
    /\ tctx' = DeadlineExceeded
    /\ IF tpc = "wait"
       THEN tpc' = "done" /\ tret' = doneError(DeadlineExceeded)
       ELSE UNCHANGED << tpc, tret >>
    /\ UNCHANGED << clock, fpc, fres, errChan, pctx, tdeadline >>
    /\ UNCHANGED offTimeout

\* the parent handle is done: cancelled by its owner (Canceled), or its own
\* deadline has passed (DeadlineExceeded); a derived handle that is live is
\* done with the same error
ParentDone(e) ==
    /\ tpc # "done"
    /\ pctx = Nil
    /\ e = DeadlineExceeded => pdeadline > 0 /\ clock >= pdeadline
    /\ pctx' = e
    /\ IF tpc \in {"started", "wait"} /\ tctx = Nil
       THEN /\ tctx' = e
            /\ IF tpc = "wait"
               THEN tpc' = "done" /\ tret' = doneError(e)
               ELSE UNCHANGED << tpc, tret >>
       ELSE UNCHANGED << tctx, tpc, tret >>
    /\ UNCHANGED << clock, fpc, fres, errChan, tdeadline >>
    /\ UNCHANGED offTimeout

NextTimeout ==
    \/ Tick
    \/ TimeoutCall
    \/ TimeoutSelectRecv
    \/ TimeoutSelectDone
    \/ TimeoutSelectPark
    \/ \E r \in FnResults \cup CtxErrors : FnReturn(r)
    \/ FnSend
    \/ DeadlineFires
    \/ \E e \in CtxErrors : ParentDone(e)

timeoutAll == << vars, lockVars, retryVars, bulkheadVars, restVars >>
SpecTimeout == InitTimeout /\ [][NextTimeout]_timeoutAll

\* Time passes and timers fire; the goroutine of Execute and the one it
\* starts are scheduled.  Nothing is assumed of fn, which may never return,
\* nor of the owner of the parent handle.
FairTimeout ==
    /\ WF_timeoutAll(Tick)
    /\ WF_timeoutAll(DeadlineFires)
    /\ WF_timeoutAll(TimeoutSelectRecv \/ TimeoutSelectDone \/ TimeoutSelectPark)
    /\ WF_timeoutAll(FnSend)
SpecTimeoutLive == InitTimeout /\ [][NextTimeout]_timeoutAll /\ FairTimeout

(***************************************************************************)
(* Calls of ExecuteWithResult on one Executor.                             *)
(***************************************************************************)
offExecutor ==
    << config, pc, gen, last, probe, stale, hoAdmitted, hoSuccesses, mu, at, rlconfig,
       retryVars, bgiven, bconfig, bpc, bctx, fnres, regq, bret, limiterVars,
       timeoutVars, has >>

\* the primitives as Build() leaves them, for the layers hs
InitLayers(hs) ==
    /\ InitBreaker
    /\ config.MinRequests = 1
    /\ LockParked
    /\ rconfig = NewRetry([ MaxAttempts |-> MaxMaxAttempts, ShouldRetry |-> TRUE ])
    /\ RetryIdle
    /\ BulkheadParked
    /\ LimiterParked
    /\ TimeoutParked
    /\ has \in hs
    /\ has.cb \/ config.MaxRequests = 1
    /\ others = 0
    /\ call = [p \in ExecCallers |-> IdleCall]

InitExecutor == InitLayers(Layers)

\* p's call becomes c
Becomes(p, c) == call' = [call EXCEPT ![p] = c]

\* ExecuteWithResult(ctx, fn) is called, with a handle that may be cancelled
\* already; the wrappers are built and the outermost layer is entered
ExCall(p, e) ==
    /\ call[p].pc \in {"idle", "done"}
    /\ call[p].ipc \in {"none", "exited"}
    /\ Becomes(p, callerEntry(has, rconfig, [IdleCall EXCEPT !.pctx = e]))
    /\ UNCHANGED << clock, cb, rl, sem, queue, sendq, others >>
    /\ UNCHANGED offExecutor

\* the owner of the handle of p's call cancels it
ExCancel(p) ==
    /\ call[p].pc \notin {"idle", "done", "release", "leave"}
    /\ call[p].pctx = Nil
    /\ Becomes(p, cancelCall(has, call[p], Canceled))
    /\ sendq' = without(sendq, p)
    /\ UNCHANGED << clock, cb, rl, sem, queue, others >>
    /\ UNCHANGED offExecutor

\* rateLimiter.Wait: if rl.Allow() { return nil }
ExWaitAllow(p) ==
    /\ call[p].pc = "rl"
    /\ LET r == Allow(rlconfig, rl, clock)
       IN  /\ rl' = r.rl
           /\ Becomes(p, IF r.ok
                         THEN afterLimiter(has, rconfig, [call[p] EXCEPT !.tok = @ + 1])
                         ELSE [call[p] EXCEPT !.pc = "rlfailed"])
    /\ UNCHANGED << clock, cb, sem, queue, sendq, others >>
    /\ UNCHANGED offExecutor

\* rateLimiter.Wait: waitTime := rl.nextTokenDuration() and the select is
\* entered: with ctx.Done() closed it returns ctx.Err() (when the timer of
\* time.After(0) has fired as well, either case is taken); otherwise the
\* goroutine tries again at once or blocks
ExWaitSelect(p, done) ==
    /\ call[p].pc = "rlfailed"
    /\ LET c == call[p]
           d == nextTokenDuration(rlconfig, rl)
       IN  Becomes(p, IF c.pctx # Nil /\ (d > 0 \/ done)
                      THEN waitFailed(c, interrupted(c.pctx))
                      ELSE IF d = 0
                           THEN [c EXCEPT !.pc = "rl"]
                           ELSE [c EXCEPT !.pc = "rlsleep", !.wake = clock + d])
    /\ UNCHANGED << clock, cb, rl, sem, queue, sendq, others >>
    /\ UNCHANGED offExecutor

\* rateLimiter.Wait: case <-time.After(waitTime)
ExWaitTimer(p) ==
    /\ call[p].pc = "rlsleep"
    /\ clock >= call[p].wake
    /\ Becomes(p, [call[p] EXCEPT !.pc = "rl", !.wake = 0])
    /\ UNCHANGED << clock, cb, rl, sem, queue, sendq, others >>
    /\ UNCHANGED offExecutor

\* bulkhead.Execute, the outer select: case b.sem <- struct{}{}, or default
ExBulkArrive(p) ==
    /\ call[p].pc = "bh"
    /\ IF sem < bconfig.MaxConcurrent
       THEN /\ sem' = sem + 1
            /\ Becomes(p, afterBulkhead(has, rconfig, call[p]))
       ELSE /\ sem' = sem
            /\ Becomes(p, [call[p] EXCEPT !.pc = "bhpolled"])
    /\ UNCHANGED << clock, cb, rl, queue, sendq, others >>
    /\ UNCHANGED offExecutor

\* bulkhead.Execute, the second select: case b.queue <- struct{}{}, or
\* default: return ErrBulkheadFull
ExBulkQueue(p) ==
    /\ call[p].pc = "bhpolled"
    /\ IF queue < bconfig.MaxQueueSize
       THEN /\ queue' = queue + 1
            /\ Becomes(p, [call[p] EXCEPT !.pc = "bhqueued", !.q = TRUE])
       ELSE /\ queue' = queue
            /\ Becomes(p, returns(call[p], NilValue, ErrBulkheadFull))
    /\ UNCHANGED << clock, cb, rl, sem, sendq, others >>
    /\ UNCHANGED offExecutor

\* bulkhead.Execute, the inner select is entered: case b.sem <- struct{}{},
\* case <-ctx.Done() (either when both are ready), or the goroutine blocks
ExBulkSelect(p, done) ==
    /\ call[p].pc = "bhqueued"
    /\ LET c == call[p]
       IN  IF sem < bconfig.MaxConcurrent /\ (c.pctx = Nil \/ ~done)
           THEN /\ sem' = sem + 1
                /\ sendq' = sendq
                /\ Becomes(p, afterBulkhead(has, rconfig, c))
           ELSE IF c.pctx # Nil
                THEN /\ Becomes(p, [c EXCEPT !.pc = "leave",
                                             !.res = [ val |-> NilValue,
                                                       err |-> executeReturns(NotCalled, c.pctx) ]])
                     /\ UNCHANGED << sem, sendq >>
                ELSE /\ Becomes(p, [c EXCEPT !.pc = "bhparked"])
                     /\ sendq' = Append(sendq, p)
                     /\ sem' = sem
    /\ UNCHANGED << clock, cb, rl, queue, others >>
    /\ UNCHANGED offExecutor

\* the slot a receive from b.sem frees: it goes to the goroutine blocked
\* longest in the send, whose fn starts; else the channel has one token less
freeSlot(c) ==
    IF sendq # << >>
    THEN /\ sendq' = Tail(sendq)
         /\ sem' = sem
         /\ call' = [c EXCEPT ![Head(sendq)] = afterBulkhead(has, rconfig, c[Head(sendq)])]
    ELSE /\ sendq' = sendq
         /\ sem' = sem - 1
         /\ call' = c

\* bulkhead.Execute: fn returned; defer func() { <-b.sem }()
ExBulkRelease(p) ==
    /\ call[p].pc = "release"
    /\ freeSlot([call EXCEPT ![p].pc = IF call[p].q THEN "leave" ELSE "done"])
    /\ UNCHANGED << clock, cb, rl, queue, others >>
    /\ UNCHANGED offExecutor

\* bulkhead.Execute returns from the queued path: defer func() { <-b.queue }()
ExBulkLeave(p) ==
    /\ call[p].pc = "leave"
    /\ queue' = releaseQueue(queue)
    /\ Becomes(p, [call[p] EXCEPT !.pc = "done", !.q = FALSE])
    /\ UNCHANGED << clock, cb, rl, sem, sendq, others >>
    /\ UNCHANGED offExecutor

\* a call that is not followed finds a free slot (outer select of
\* bulkhead.Execute) and runs its fn
OtherEnters ==
    /\ has.bh
    /\ sem < bconfig.MaxConcurrent
    /\ sem' = sem + 1
    /\ others' = others + 1
    /\ UNCHANGED << clock, cb, rl, queue, sendq, call >>
    /\ UNCHANGED offExecutor

\* its fn returns: defer func() { <-b.sem }()
OtherLeaves ==
    /\ others > 0
    /\ others' = others - 1
    /\ freeSlot(call)
    /\ UNCHANGED << clock, cb, rl, queue >>
    /\ UNCHANGED offExecutor

\* timeout.Execute: context.WithTimeout(ctx, t.duration), errChan made, the
\* goroutine started (calls whose deadline lies beyond the last clock value
\* are left out)
ExTimeoutCall(p) ==
    /\ call[p].pc = "to"
    /\ clock + tdur <= MaxClock
    /\ Becomes(p, [call[p] EXCEPT !.pc = "tsel", !.ipc = "start", !.tdl = clock + tdur,
                                  !.tctx = call[p].pctx])
    /\ UNCHANGED << clock, cb, rl, sem, queue, sendq, others >>
    /\ UNCHANGED offExecutor

\* timeout.Execute, the select is entered: case err := <-errChan (Execute
\* returns and the wrapper reads result, line 157), case <-timeoutCtx.Done()
\* (either when both are ready), or Execute blocks
ExTimeoutSelect(p, done) ==
    /\ call[p].pc = "tsel"
    /\ LET c == call[p]
       IN  Becomes(p, IF c.ch # << >> /\ (c.tctx = Nil \/ ~done)
                      THEN leaveTimeout(has, [c EXCEPT !.ch = Tail(@),
                                                       !.tctx = deferredCancel(@)],
                                        c.tres, Head(c.ch))
                      ELSE IF c.tctx # Nil
                           THEN [c EXCEPT !.pc = "tdone"]
                           ELSE [c EXCEPT !.pc = "twait"])
    /\ UNCHANGED << clock, cb, rl, sem, queue, sendq, others >>
    /\ UNCHANGED offExecutor

\* timeout.Execute returns from case <-timeoutCtx.Done(); the wrapper reads
\* result (line 157), which the goroutine writes (line 154) with nothing
\* ordering the two
ExTimeoutDone(p) ==
    /\ call[p].pc = "tdone"
    /\ Becomes(p, timedOut(has, call[p], call[p].tctx))
    /\ UNCHANGED << clock, cb, rl, sem, queue, sendq, others >>
    /\ UNCHANGED offExecutor

\* the timer of the derived handle fires
ExDeadline(p) ==
    /\ call[p].pc \in {"tsel", "twait"}
    /\ call[p].tctx = Nil
    /\ clock >= call[p].tdl
    /\ Becomes(p, expireCall(has, call[p]))
    /\ UNCHANGED << clock, cb, rl, sem, queue, sendq, others >>
    /\ UNCHANGED offExecutor

\* the goroutine of timeout.Execute runs: fn(timeoutCtx), the closure of
\* lines 152-156, calls originalFn(ctx)
ExInnerStart(p) ==
    /\ call[p].ipc = "start"
    /\ Becomes(p, innerEntry(has, rconfig, call[p]))
    /\ UNCHANGED << clock, cb, rl, sem, queue, sendq, others >>
    /\ UNCHANGED offExecutor

\* circuitBreaker.Execute: cb.beforeRequest(); a rejected call returns
\* the error at once
ExBreakerBefore(p) ==
    /\ call[p].ipc = "cb"
    /\ LET r == beforeRequest(config, cb, clock)
           c == call[p]
       IN  /\ r.cb.counts.requests <= MaxCount
           /\ cb' = r.cb
           /\ Becomes(p, IF r.err = NoError
                         THEN afterBreaker(has, rconfig,
                                           [c EXCEPT !.gen = r.generation, !.adm = TRUE])
                         ELSE innerDone(has, [c EXCEPT !.ierr = asError(r.err)]))
    /\ UNCHANGED << clock, rl, sem, queue, sendq, others >>
    /\ UNCHANGED offExecutor

\* the operation returns r; inside retry.Execute the pass of the loop goes on
\* to a return or to the select
ExOpReturn(p, r) ==
    /\ call[p].ipc = "op"
    /\ LET c == [call[p] EXCEPT !.ival = r.val, !.opret = r]
           err == r.err
       IN  Becomes(p,
              IF ~ has.re THEN retryDone(has, c, err)
              ELSE IF succeeded(err) THEN retryDone(has, c, Nil)
              ELSE IF shouldStop(rconfig, err) THEN retryDone(has, c, err)
              ELSE IF lastAttempt(rconfig, c.att) THEN retryDone(has, c, exhausted(err))
              ELSE [c EXCEPT !.ipc = "resleep", !.ierr = err])
    /\ UNCHANGED << clock, cb, rl, sem, queue, sendq, others >>
    /\ UNCHANGED offExecutor

\* retry.Execute: case <-time.After(delay), then attempt++
ExRetryTimer(p) ==
    /\ call[p].ipc = "resleep"
    /\ Becomes(p, retryLoop(has, rconfig, [call[p] EXCEPT !.att = @ + 1]))
    /\ UNCHANGED << clock, cb, rl, sem, queue, sendq, others >>
    /\ UNCHANGED offExecutor

\* retry.Execute: the select was entered with ctx.Done() closed
ExRetryCtxDone(p) ==
    /\ call[p].ipc = "resleep"
    /\ innerCtx(has, call[p]) # Nil
    /\ Becomes(p, wakeInner(has, call[p], innerCtx(has, call[p])))
    /\ UNCHANGED << clock, cb, rl, sem, queue, sendq, others >>
    /\ UNCHANGED offExecutor

\* circuitBreaker.Execute: cb.afterRequest(generation, err == nil), return err
ExBreakerAfter(p) ==
    /\ call[p].ipc = "cbafter"
    /\ LET c == call[p]
       IN  /\ cb' = afterRequest(config, cb, c.gen, succeeded(c.ierr), clock)
           /\ Becomes(p, innerDone(has, [c EXCEPT !.rep = Append(@, succeeded(c.ierr))]))
    /\ UNCHANGED << clock, rl, sem, queue, sendq, others >>
    /\ UNCHANGED offExecutor

\* the goroutine of timeout.Execute: result, execErr = originalFn(ctx), line 154
ExWrite(p) ==
    /\ call[p].ipc = "write"
    /\ Becomes(p, [call[p] EXCEPT !.ipc = "send", !.tres = call[p].ival])
    /\ UNCHANGED << clock, cb, rl, sem, queue, sendq, others >>
    /\ UNCHANGED offExecutor

\* the goroutine of timeout.Execute: errChan <- execErr; the value goes to
\* Execute blocked in the select, which returns it, or into the buffer
ExSend(p) ==
    /\ call[p].ipc = "send"
    /\ LET c == call[p]
       IN  IF c.pc = "twait"
           THEN Becomes(p, leaveTimeout(has, [c EXCEPT !.ipc = "exited",
                                                     !.tctx = deferredCancel(@)],
                                        c.tres, c.ierr))
           ELSE /\ Len(c.ch) < errChanCap
                /\ Becomes(p, [c EXCEPT !.ipc = "exited", !.ch = Append(@, c.ierr)])
    /\ UNCHANGED << clock, cb, rl, sem, queue, sendq, others >>
    /\ UNCHANGED offExecutor

\* the steps of caller p and of the goroutine of its call
ExStep(p) ==
    \/ \E e \in { Nil, Canceled } : ExCall(p, e)
    \/ ExCancel(p)
    \/ ExWaitAllow(p)
    \/ \E done \in BOOLEAN : ExWaitSelect(p, done)
    \/ ExWaitTimer(p)
    \/ ExBulkArrive(p)
    \/ ExBulkQueue(p)
    \/ \E done \in BOOLEAN : ExBulkSelect(p, done)
    \/ ExBulkRelease(p)
    \/ ExBulkLeave(p)
    \/ ExTimeoutCall(p)
    \/ \E done \in BOOLEAN : ExTimeoutSelect(p, done)
    \/ ExTimeoutDone(p)
    \/ ExDeadline(p)
    \/ ExInnerStart(p)
    \/ ExBreakerBefore(p)
    \/ \E r \in OpReturns(call[p].ninv) : ExOpReturn(p, r)
    \/ ExRetryTimer(p)
    \/ ExRetryCtxDone(p)
    \/ ExBreakerAfter(p)
    \/ ExWrite(p)
    \/ ExSend(p)

\* one caller followed through every combination of layers; the other calls
\* on the bulkhead are anonymous
NextExecutor ==
    \/ Tick
    \/ OtherEnters
    \/ OtherLeaves
    \/ \E p \in Solo : ExStep(p)

executorAll == << vars, lockVars, retryVars, bulkheadVars, restVars >>
SpecExecutor == InitExecutor /\ [][NextExecutor]_executorAll

\* an Executor built with WithBulkhead and WithTimeout only
BulkheadTimeout == [ rl |-> FALSE, bh |-> TRUE, to |-> TRUE, cb |-> FALSE, re |-> FALSE ]
InitExecutorPair == InitLayers({ BulkheadTimeout })

\* the steps of a call through bulkhead and timeout
PairStep(p) ==
    \/ \E e \in { Nil, Canceled } : ExCall(p, e)
    \/ ExCancel(p)
    \/ ExBulkArrive(p)
    \/ ExBulkQueue(p)
    \/ \E done \in BOOLEAN : ExBulkSelect(p, done)
    \/ ExBulkRelease(p)
    \/ ExBulkLeave(p)
    \/ ExTimeoutCall(p)
    \/ \E done \in BOOLEAN : ExTimeoutSelect(p, done)
    \/ ExTimeoutDone(p)
    \/ ExDeadline(p)
    \/ ExInnerStart(p)
    \/ \E r \in OpReturns(call[p].ninv) : ExOpReturn(p, r)
    \/ ExWrite(p)
    \/ ExSend(p)

\* concurrent callers of one Executor with bulkhead and timeout
NextExecutorPair ==
    \/ Tick
    \/ \E p \in ExecCallers : PairStep(p)

SpecExecutorPair == InitExecutorPair /\ [][NextExecutorPair]_executorAll

(***************************************************************************)
(* Vocabulary of the claims.                                               *)
(***************************************************************************)
\* the step reports the outcome of caller p's operation (cb.afterRequest)
Reports(p, success) == ExecuteAfter(p, success)
\* the step is caller p's admission check (cb.beforeRequest)
Arrives(p) == ExecuteBefore(p)
\* in the step, p's Execute returned ErrCircuitOpen and fn was not called
RejectedNow(p) == last'.err = ErrCircuitOpen /\ pc'[p] = "idle" /\ cb' = enter(cb)
\* in the step, p was admitted and its Execute went on to call fn(ctx)
AdmittedNow(p) == last'.err = NoError /\ pc'[p] = "fn"
\* the report of p's call is one the breaker counts: the generations match
Counted(p) == gen[p] = currentGeneration(cb)

\* C1: while the state is Open and now - stateTime <= Timeout, every Execute
\* returns ErrCircuitOpen without invoking the operation and leaves the breaker
\* Open, whatever other calls are in flight.
C1_OpenRejects ==
    [][\A p \in Callers :
          (cb.state = StateOpen /\ clock - cb.stateTime <= config.Timeout /\ Arrives(p))
             => (RejectedNow(p) /\ cb'.state = StateOpen)]_vars

\* C1 witness: an Execute has just been rejected by an Open breaker whose timeout
\* has not elapsed, while another call, admitted earlier, is still inside fn.
C1_Witness ==
    /\ last = [op |-> "beforeRequest", err |-> ErrCircuitOpen]
    /\ cb.state = StateOpen
    /\ clock - cb.stateTime <= config.Timeout
    /\ \E q \in Callers : pc[q] = "fn"

\* C2 (as claimed): once MaxRequests calls admitted in the current HalfOpen
\* episode have reported success consecutively, the breaker is no longer
\* HalfOpen (it has closed).
C2_RecloseAfterSuccesses ==
    cb.state = StateHalfOpen => hoSuccesses < config.MaxRequests

C4_TieBreak ==
    [][\A p \in Callers :
          (cb.state = StateOpen /\ clock - cb.stateTime > config.Timeout /\ Arrives(p))
             => /\ cb'.state = StateHalfOpen
                /\ AdmittedNow(p)
                /\ cb'.counts = cb.counts]_vars

\* C4 witness: the call that made the Open -> HalfOpen transition is inside fn.
C4_Witness ==
    /\ last = [op |-> "beforeRequest", err |-> NoError]
    /\ cb.state = StateHalfOpen
    /\ cb.fired = << <<StateOpen, StateHalfOpen>> >>
    /\ \E p \in Callers : probe[p] /\ pc[p] = "fn"

\* C5 (as claimed): when the call that made the Open -> HalfOpen transition
\* reports success, with no state change since its admission, consecSuccess
\* grows by one (or the breaker closes, which zeroes it).
C5_ProbeSuccessCounted ==
    [][\A p \in Callers :
          (probe[p] /\ ~stale[p] /\ Reports(p, TRUE))
             => \/ cb'.counts.consecSuccess = cb.counts.consecSuccess + 1
                \/ cb'.state = StateClosed]_vars

\* C6 (as claimed): a failure reported by a call admitted in the current HalfOpen
\* episode, the transitioning call included, moves the breaker to Open.
C6_HalfOpenFailureOpens ==
    [][\A p \in Callers :
          (cb.state = StateHalfOpen /\ ~stale[p] /\ Reports(p, FALSE))
             => cb'.state = StateOpen]_vars

\* C7: between entering HalfOpen and the next state change at most MaxRequests
\* calls are admitted besides the transitioning call, and an Execute that
\* arrives in HalfOpen is either admitted within that cap or returns
\* ErrCircuitOpen without invoking the operation.
C7_HalfOpenCap ==
    /\ [](hoAdmitted <= config.MaxRequests)
    /\ [][\A p \in Callers :
            (cb.state = StateHalfOpen /\ Arrives(p))
               => \/ RejectedNow(p)
                  \/ AdmittedNow(p) /\ hoAdmitted < config.MaxRequests]_vars

\* C7 witness: in HalfOpen one call besides the transitioning call was admitted
\* and the next one has just been rejected.
C7_Witness ==
    /\ last = [op |-> "beforeRequest", err |-> ErrCircuitOpen]
    /\ cb.state = StateHalfOpen
    /\ hoAdmitted >= 1

\* C8 (as claimed): the report of a call whose generation has ended (a state
\* transition, an interval rollover or a Reset happened after its admission)
\* changes neither the counts nor the state.
C8_LateReportDiscarded ==
    [][\A p \in Callers : \A success \in BOOLEAN :
          (stale[p] /\ Reports(p, success))
             => (cb'.counts = cb.counts /\ cb'.state = cb.state)]_vars

C10_IntervalRollover ==
    [][\A p \in Callers :
          (cb.state = StateClosed /\ clock - cb.stateTime > config.Interval /\ Arrives(p))
             => /\ cb'.counts = [counts EXCEPT !.requests = 1]
                /\ cb'.stateTime = clock
                /\ gen'[p] = clock
                /\ cb'.state = StateClosed
                /\ cb'.fired = << >>
                /\ AdmittedNow(p)
                /\ \A q \in Callers \ {p} : pc[q] = "fn" => stale'[q]]_vars

\* C10 witness: an admission has just rolled the interval over while a call of
\* the previous generation, which had counted requests, is still in flight.
C10_Witness ==
    /\ last = [op |-> "beforeRequest", err |-> NoError]
    /\ cb.state = StateClosed
    /\ cb.newGen
    /\ cb.counts = [counts EXCEPT !.requests = 1]
    /\ cb.stateTime = clock
    /\ \E q \in Callers : pc[q] = "fn" /\ stale[q] /\ gen[q] # clock

\* C11: a step that changes the breaker's state invokes OnStateChange exactly
\* once, with the state before the step and the state after it (which differ);
\* a handler that leaves the state as it was (Reset while Closed, an interval
\* rollover, a rejected admission, a counted report) invokes it not at all.
C11_StateCallback ==
    [][ clock' = clock =>
            IF cb'.state # cb.state
            THEN cb'.fired = << <<cb.state, cb'.state>> >>
            ELSE cb'.fired = << >> ]_vars
\* the breaker has just tripped, and the callback got (Closed, Open)
C11_Witness == cb.state = StateOpen /\ cb.fired = << <<StateClosed, StateOpen>> >>

\* C12: OnStateChange and OnRateLimit run while their primitive's mutex is not
\* held by the calling goroutine, so a goroutine never waits, inside a
\* callback, for a mutex that it holds itself: a callback that calls State(),
\* Execute(), Reset() or Allow() on the same primitive completes.
InCallback(p, callback) == \E i \in 1..Len(at[p]) : at[p][i] = callback
C12_CallbackReentrancy ==
    \A p \in Callers :
        /\ InCallback(p, "OnStateChange") => mu.cb # p
        /\ InCallback(p, "OnRateLimit") => mu.rl # p
        /\ ~ (Top(p) \in {"cb.Lock", "cb.RLock"} /\ mu.cb = p)
        /\ ~ (Top(p) = "rl.Lock" /\ mu.rl = p)

(***************************************************************************)
(* Retry claims.                                                           *)
(***************************************************************************)
\* the number of invocations of fn so far
Invocations == Len(outcomes)
\* the k-th invocation failed with an error that the configuration retries
RetryableFailure(k) ==
    /\ outcomes[k] # Nil
    /\ rconfig.ShouldRetry => outcomes[k].retryable
\* every invocation so far failed with a retryable error
AlwaysFailed == \A k \in 1..Invocations : RetryableFailure(k)

\* C13: fn is invoked at most MaxAttempts times, and an invocation that
\* returns nil is the last one: Execute has returned nil.
C13_AttemptBound ==
    /\ Invocations <= rconfig.MaxAttempts
    /\ \A k \in 1..Invocations :
          outcomes[k] = Nil => k = Invocations /\ rpc = "done" /\ ret = Nil
\* Execute returned nil after a failed and then a successful invocation
C13_Witness ==
    rpc = "done" /\ ret = Nil /\ Invocations = 2 /\ outcomes[1] # Nil /\ outcomes[2] = Nil

C15_Predicate ==
    \A k \in 1..Invocations :
        rconfig.ShouldRetry /\ outcomes[k] # Nil /\ ~ outcomes[k].retryable =>
            /\ rpc = "done"
            /\ ret = outcomes[k]
            /\ Invocations = k
            /\ Len(onRetry) = k - 1
            /\ sleeps = k - 1
\* the second invocation returned an error that ShouldRetry refuses, where a
\* third attempt was left
C15_Witness ==
    /\ rconfig.ShouldRetry /\ rconfig.MaxAttempts = 3
    /\ Invocations = 2
    /\ ~ outcomes[2].retryable /\ outcomes[2] # Nil

\* C16: the j-th OnRetry call has the arguments (j, error of the j-th
\* invocation), i.e. OnRetry(k+1, err) for attempt k = j-1; it comes after
\* that invocation and before the next one; there is none after the final
\* attempt; when Execute has returned from an always failing operation with
\* the handle never cancelled the attempt arguments were 1, ..., MaxAttempts-1.
C16_OnRetryOrder ==
    /\ \A j \in 1..Len(onRetry) : j <= Invocations /\ onRetry[j] = << j, outcomes[j] >>
    /\ Invocations <= Len(onRetry) + 1
    /\ Len(onRetry) <= rconfig.MaxAttempts - 1
    /\ rpc = "done" /\ ctxErr = Nil /\ AlwaysFailed =>
           Len(onRetry) = rconfig.MaxAttempts - 1
\* an always failing operation, three attempts: OnRetry(1, .), OnRetry(2, .)
C16_Witness ==
    /\ rpc = "done" /\ ctxErr = Nil /\ AlwaysFailed
    /\ rconfig.MaxAttempts = 3
    /\ Len(onRetry) = 2

\* C17: when the handle is cancelled (or its deadline passes) while Execute
\* sleeps between two attempts, fn is not invoked after that sleep, and
\* Execute returns the handle's error, Canceled or DeadlineExceeded
\* respectively, not the last operation error.
C17_SleepCancelled ==
    asleepCancel =>
        /\ rpc \in {"sleep", "done"}
        /\ Invocations = sleeps
        /\ rpc = "done" => ret = ctxErr /\ ret \in {Canceled, DeadlineExceeded}
\* Execute has returned from a sleep that was cancelled
C17_Witness == asleepCancel /\ rpc = "done" /\ lastErr # Nil

(***************************************************************************)
(* Bulkhead claims.  MaxConcurrent and MaxQueueSize are the values the     *)
(* bulkhead was configured with.                                           *)
(***************************************************************************)
\* the callers that hold an active slot (they are in fn)
Active == { p \in BulkheadCallers : bpc[p] \in {"run", "runq"} }
\* the callers registered in the wait queue: admitted to it, not promoted
Waiters == { p \in BulkheadCallers : bpc[p] \in {"queued", "parked"} }
\* the callers that hold a waiter slot without being active: the waiters, and
\* those on their way out of Execute
NotActiveInQueue == { p \in BulkheadCallers : bpc[p] \in {"queued", "parked", "leave"} }
\* in the step, p's Execute returns ErrBulkheadFull (after OnBulkheadFull)
BulkRejects(p) == bpc[p] = "polled" /\ bpc'[p] = "idle" /\ BulkQueue(p)

\* C18: at most MaxConcurrent callers hold an active slot and at most
\* MaxQueueSize callers are registered in the wait queue.
C18_Capacity ==
    /\ Cardinality(Active) <= bgiven.MaxConcurrent
    /\ Cardinality(Waiters) <= bgiven.MaxQueueSize

\* C19: a caller (that found every active slot held) is rejected only when
\* MaxQueueSize callers hold a waiter slot without being active; a caller
\* promoted to active does not count.
C19_AdmissionRule ==
    [][ \A p \in BulkheadCallers :
            BulkRejects(p) => Cardinality(NotActiveInQueue) = bconfig.MaxQueueSize ]_bulkheadAll

\* C20: in a bulkhead configured with MaxQueueSize = 0 no caller is ever
\* queued, blocked or admitted through the queue: one that finds every
\* active slot held returns ErrBulkheadFull at once.
C20_NoQueue ==
    bgiven.MaxQueueSize = 0 =>
        \A p \in BulkheadCallers : bpc[p] \notin {"queued", "parked", "runq", "leave"}

\* in the step, waiter p finds its handle cancelled and no active slot free:
\* blocked in the select it is woken by the cancellation, or it enters the
\* select with the handle cancelled and every slot held
CancelledWaiting(p) ==
    \/ bpc[p] = "parked" /\ \E c \in CtxErrors : BulkCancel(p, c)
    \/ bpc[p] = "queued" /\ bctx[p] # Nil /\ ~ (sem < bconfig.MaxConcurrent) /\ bpc'[p] # "queued"
\* p is on its way out of Execute without an active slot and without a call of fn
CancelExit(p) == bpc[p] = "leave" /\ fnres[p] = NotCalled

WaitOrder == SelectSeq(regq, LAMBDA x : bctx[x] = Nil)
\* in the step, waiter p is promoted: it obtains an active slot
Promoted(p) == p \in Waiters /\ bpc'[p] = "runq"

\* C22: in a bulkhead configured with a queue, the waiter that is promoted is
\* the one that entered the queue first among those waiting, and a step (a
\* release of an active slot among them) promotes at most one waiter.
C22_Ordering ==
    [][ bgiven.MaxQueueSize > 0 =>
            /\ \A p \in BulkheadCallers :
                    Promoted(p) /\ bctx[p] = Nil => p = Head(WaitOrder)
            /\ Cardinality({ p \in BulkheadCallers : Promoted(p) }) <= 1 ]_bulkheadAll

\* C23: when no handle is cancelled and every operation returns, a caller
\* that entered the wait queue obtains an active slot and its operation runs
\* and returns, and Execute then returns the operation's result; and when no
\* call is in flight, Available() is MaxConcurrent and b.queue is empty.
C23_Progress ==
    /\ \A p \in BulkheadCallers :
            bpc[p] \in {"queued", "parked"} ~> (bpc[p] = "leave" /\ fnres[p] \in FnResults)
    /\ \A p \in BulkheadCallers : \A r \in FnResults :
            (bpc[p] = "leave" /\ fnres[p] = r) ~> (bpc[p] = "idle" /\ bret = r)
    /\ []((\A p \in BulkheadCallers : bpc[p] = "idle") =>
            Available = bgiven.MaxConcurrent /\ queue = 0)
\* a caller that waited in the queue has run its operation, which failed, and
\* is about to return
C23_Witness ==
    \E p \in BulkheadCallers : bpc[p] = "leave" /\ fnres[p] \in FnResults \ { Nil }

(***************************************************************************)
(* Rate limiter claims.  Tokens are counted in units: a token is TokenUnit *)
(* units, Burst tokens are Burst * TokenUnit units.                        *)
(***************************************************************************)
\* the step is a call of Allow(), by itself or from Wait
AllowStep == LimAllow \/ \E p \in WaitCallers : WaitAllow(p)
\* min(Burst, tokens + Rate * elapsed), for the time elapsed since lastTime
Refilled ==
    LET t == rl.tokens + rlconfig.Rate * (clock - rl.lastTime)
        b == rlconfig.Burst * TokenUnit
    IN  IF t < b THEN t ELSE b
\* the number of grants at the clock readings t1..t2
RECURSIVE GrantsIn(_, _)
GrantsIn(t1, t2) == IF t1 > t2 THEN 0 ELSE grants[t1] + GrantsIn(t1 + 1, t2)
\* in the step, p's call of Wait returns
WaitReturns(p) == wpc[p] # "idle" /\ wpc'[p] = "idle"

\* C24: a call of Allow with at least one token after the refill takes exactly
\* one token, returns true and does not call OnRateLimit; otherwise it leaves
\* the refilled tokens alone, calls OnRateLimit and returns false.  While no
\* time has passed since the limiter was made, it grants until Burst calls
\* were granted and refuses from then on.
C24_Allow ==
    /\ [][ AllowStep =>
             IF Refilled >= TokenUnit
             THEN /\ rl'.tokens = Refilled - TokenUnit
                  /\ lres' = [ ok |-> TRUE, fired |-> FALSE ]
                  /\ grants'[clock] = grants[clock] + 1
             ELSE /\ rl'.tokens = Refilled
                  /\ lres' = [ ok |-> FALSE, fired |-> TRUE ]
                  /\ grants' = grants ]_limiterAll
    /\ [](clock = 1 =>
             IF grants[1] < rlconfig.Burst
             THEN rl.tokens >= TokenUnit
             ELSE grants[1] = rlconfig.Burst /\ rl.tokens < TokenUnit)
\* a limiter with the largest Burst has granted Burst calls and refused the
\* next, all at the clock reading at which it was made
C24_Witness ==
    /\ clock = 1
    /\ rlconfig.Burst = MaxLimiterBurst
    /\ grants[1] = rlconfig.Burst
    /\ lres = [ ok |-> FALSE, fired |-> TRUE ]

\* C25: the grants (Allow returning true, Wait returning nil) between two
\* clock readings t1 <= t2 number at most Burst + Rate * (t2 - t1).
C25_GrantBound ==
    \A t1 \in 1..MaxClock : \A t2 \in t1..MaxClock :
        GrantsIn(t1, t2) * TokenUnit
            <= rlconfig.Burst * TokenUnit + rlconfig.Rate * (t2 - t1)
\* an interval of positive length in which as many calls were granted as the
\* bound allows, the last of them at its end
C25_Witness ==
    \E t1 \in 1..MaxClock : \E t2 \in (t1 + 1)..MaxClock :
        /\ grants[t2] > 0
        /\ GrantsIn(t1, t2) * TokenUnit
              = rlconfig.Burst * TokenUnit + rlconfig.Rate * (t2 - t1)

\* C26: tokens stays between 0 and Burst; every call of Allow sets lastTime to
\* now and tokens to min(Burst, tokens + Rate * elapsed) before it decides
\* (it then takes one token or none); and no time is credited twice: the
\* tokens in the bucket and the tokens granted never exceed Burst plus the
\* refill for the time up to lastTime.
C26_StateInvariant ==
    /\ [](0 <= rl.tokens /\ rl.tokens <= rlconfig.Burst * TokenUnit)
    /\ [][ AllowStep =>
             /\ rl'.lastTime = clock
             /\ rl'.tokens \in { Refilled, Refilled - TokenUnit } ]_limiterAll
    /\ [](rl.tokens + GrantsIn(1, MaxClock) * TokenUnit
             <= rlconfig.Burst * TokenUnit + rlconfig.Rate * (rl.lastTime - 1))
\* after grants, a refill for elapsed time has left the bucket neither empty
\* nor full
C26_Witness ==
    /\ rl.lastTime > 1
    /\ GrantsIn(1, MaxClock) > 0
    /\ 0 < rl.tokens /\ rl.tokens < rlconfig.Burst * TokenUnit

\* C27: Wait returns nil only when the call has taken exactly one token; it
\* returns the handle's error when the handle is cancelled before the call
\* has a token; and a call that returns an error has taken no token.
C27_Wait ==
    [][ \A p \in WaitCallers :
            WaitReturns(p) =>
                /\ wret'.err = Nil => wret'.took = TokenUnit
                /\ wret'.err # Nil => wret'.took = 0
                /\ wctx[p] # Nil => wret'.err = wctx[p]
                /\ \A c \in CtxErrors : WaitCancel(p, c) => wret'.err = c ]_limiterAll
\* C27, amended: Wait returns nil only when the call has taken exactly one
\* token; it returns the handle's error when the handle is cancelled while
\* the call is blocked in its sleep; and an error that Wait returns is the
\* handle's, from a call that has taken no token.
C27_WaitAmended ==
    [][ \A p \in WaitCallers :
            /\ WaitReturns(p) =>
                  /\ wret'.err = Nil => wret'.took = TokenUnit
                  /\ wret'.err # Nil =>
                        /\ wret'.took = 0
                        /\ wret'.err = wctx[p] \/ \E c \in CtxErrors : WaitCancel(p, c) /\ wret'.err = c
            /\ \A c \in CtxErrors :
                  WaitCancel(p, c) /\ wpc[p] = "sleep" =>
                      WaitReturns(p) /\ wret'.err = c ]_limiterAll
\* a call of Wait has returned its handle's error
C27_Witness == wret.err \in CtxErrors /\ wret.took = 0

(***************************************************************************)
(* Timeout                                                                 *)
(***************************************************************************)
\* this step is a return of Timeout.Execute
TimeoutReturns == tpc # "done" /\ tpc' = "done"
\* ... with the derived handle live until the deferred cancel()
LiveAtReturn == tctx = Nil /\ pctx' = Nil /\ tctx' = Canceled
\* ... with the derived handle expired and fn still running
ExpiredAtReturn == tctx' = DeadlineExceeded /\ fpc = "running"

ParentCancelledAtReturn == pctx' = Canceled /\ tctx' = Canceled /\ fpc = "running"

C30_NoAwait ==
    /\ [](tpc = "done" => tctx # Nil)
    /\ (tpc = "started" ~> tpc = "done")
    /\ (fpc = "returned" ~> fpc = "exited")
\* Execute returned ErrTimeout; fn finished afterwards and its result lies in
\* errChan, the goroutine ended
C30_Witness ==
    /\ tpc = "done"
    /\ tret = ErrTimeout
    /\ fpc = "exited"
    /\ Len(errChan) = 1

(***************************************************************************)
(* Circuit breaker: HalfOpen cap, transitions, counters                    *)
(***************************************************************************)
\* C35 (as claimed): an Execute that arrives in HalfOpen is rejected only if
\* MaxRequests calls have been admitted since the breaker entered HalfOpen
\* (the transitioning call counted among them)
C35_HalfOpenNotStarved ==
    [][\A p \in Callers :
          (cb.state = StateHalfOpen /\ Arrives(p) /\ RejectedNow(p))
             => hoAdmitted + 1 >= config.MaxRequests]_vars

\* the step changes the state from one to the other
Moves(from, to) == cb.state = from /\ cb'.state = to

\* C36: every change of state is Closed -> Open by a failure report,
\* Open -> HalfOpen by an admission check with now - stateTime > Timeout,
\* HalfOpen -> Open by a failure report, HalfOpen -> Closed by a success
\* report, or a change to Closed by Reset()
C36_TransitionGraph ==
    [][cb'.state # cb.state =>
          \/ Moves(StateClosed, StateOpen) /\ \E p \in Callers : Reports(p, FALSE)
          \/ /\ Moves(StateOpen, StateHalfOpen)
             /\ clock - cb.stateTime > config.Timeout
             /\ \E p \in Callers : Arrives(p)
          \/ Moves(StateHalfOpen, StateOpen) /\ \E p \in Callers : Reports(p, FALSE)
          \/ Moves(StateHalfOpen, StateClosed) /\ \E p \in Callers : Reports(p, TRUE)
          \/ cb'.state = StateClosed /\ DoReset]_vars
\* a failure reported in HalfOpen has just re-opened the breaker
C36_Witness ==
    /\ last = [op |-> "afterRequest", err |-> OpError]
    /\ cb.fired = << <<StateHalfOpen, StateOpen>> >>

\* C37 (as claimed): totalSuccesses + totalFailures <= requests,
\* consecSuccess <= totalSuccesses, consecFailures <= totalFailures and at
\* most one of consecSuccess and consecFailures is not zero
C37_CounterConsistency ==
    /\ cb.counts.totalSuccesses + cb.counts.totalFailures <= cb.counts.requests
    /\ cb.counts.consecSuccess <= cb.counts.totalSuccesses
    /\ cb.counts.consecFailures <= cb.counts.totalFailures
    /\ cb.counts.consecSuccess = 0 \/ cb.counts.consecFailures = 0

(***************************************************************************)
(* Executor: the order of the layers                                       *)
(***************************************************************************)
AllLayers == [ rl |-> TRUE, bh |-> TRUE, to |-> TRUE, cb |-> TRUE, re |-> TRUE ]

\* caller p has an active slot of the bulkhead: a token in b.sem that no
\* anonymous call put there
HoldsSlot(p) == sem = others + 1
\* the step in which p requests a slot (the outer select of bulkhead.Execute)
RequestsSlot(p) == call[p].pc = "bh" /\ call'[p].pc # "bh"
\* the step in which the timeout of p's call is armed
Arms(p) == call[p].pc = "to" /\ call'[p].tdl > 0
\* the step in which the breaker checks the call (beforeRequest)
BreakerChecks(p) == call[p].ipc = "cb" /\ call'[p].ipc # "cb" /\ cb' = beforeRequest(config, cb, clock).cb
\* a step in which the operation is invoked
Invokes(p) == call'[p].ninv = call[p].ninv + 1

\* C31: with all five layers, a call takes its token before it requests a
\* slot of the bulkhead, holds the slot when the timeout is armed, is checked
\* by the breaker only once the timeout is armed and still holding nothing
\* less, and the operation is invoked only for a call the breaker admitted
C31_ComposerOrder ==
    [][has = AllLayers =>
          \A p \in Solo :
              /\ RequestsSlot(p) => call[p].tok = 1 /\ ~ HoldsSlot(p) /\ call[p].tdl = 0
              /\ Arms(p) => HoldsSlot(p) /\ call[p].tok = 1 /\ ~ call[p].adm
              /\ BreakerChecks(p) => call[p].tdl > 0 /\ call[p].ninv = 0
              /\ Invokes(p) => call'[p].adm /\ call[p].tdl > 0 /\ call[p].tok = 1]_executorAll
\* a five-layer call returned the result of the second invocation
C31_Witness ==
    /\ has = AllLayers
    /\ call[1].pc = "done"
    /\ call[1].ninv = 2
    /\ call[1].adm
    /\ call[1].res = [ val |-> 2, err |-> Nil ]


\* p is inside rateLimiter.Wait
InWait(p) == call[p].pc \in {"rl", "rlfailed", "rlsleep"}
\* p holds nothing of the bulkhead
OutsideBulkhead(p) == sem = others /\ queue = 0 /\ ~ call[p].q /\ without(sendq, p) = sendq
\* the step in which Wait returns an error to ExecuteWithResult
WaitFails(p) == call[p].pc \in {"rlfailed", "rlsleep"} /\ ~ InWait(p)'

\* C32: a caller inside the Executor's rateLimiter.Wait holds neither an
\* active slot nor a queue slot of the bulkhead; when Wait returns an error,
\* ExecuteWithResult returns (nil, that error), and bulkhead, breaker and
\* operation are untouched
C32_LimiterFirst ==
    [][has.rl =>
          \A p \in Solo :
              /\ InWait(p) => OutsideBulkhead(p)
              /\ InWait(p)' => OutsideBulkhead(p)'
              /\ WaitFails(p) =>
                    /\ call'[p].pc = "done"
                    /\ call'[p].pctx # Nil
                    /\ call'[p].res = [ val |-> NilValue, err |-> call'[p].pctx ]
                    /\ call'[p].ninv = 0 /\ call'[p].ipc = "none" /\ ~ call'[p].adm
                    /\ UNCHANGED << sem, queue, sendq, cb >>]_executorAll
\* Wait returned the handle's error while another call held the slot
C32_Witness ==
    /\ has.rl /\ has.bh /\ has.cb
    /\ call[1].pc = "done"
    /\ call[1].res = [ val |-> NilValue, err |-> Canceled ]
    /\ call[1].tok = 0
    /\ others = 1


(***************************************************************************)
(* Executor: results                                                       *)
(***************************************************************************)
\* a layer refused p's call
Rejected(p) == call[p].res.err \in { ErrBulkheadFull, asError(ErrCircuitOpen) }
\* p's call was neither cancelled nor did its timeout fire
Undisturbed(p) == call[p].pctx = Nil /\ call[p].tctx # DeadlineExceeded

Admits(p) == BreakerChecks(p) /\ call'[p].adm
\* the breaker refuses p's call in this step
Refuses(p) == BreakerChecks(p) /\ ~ call'[p].adm
\* requests as the admitting call finds it, after the roll-over of an expired
\* interval
RequestsFound == IF cb.state = StateClosed /\ cb'.stateTime # cb.stateTime THEN 0 ELSE cb.counts.requests
\* the admitting call is the one that moves the breaker from Open to HalfOpen
Transitions == cb.state = StateOpen /\ cb'.state = StateHalfOpen
\* circuitBreaker.Execute reports the outcome of p's call in this step
ReportsOutcome(p) == call[p].ipc = "cbafter" /\ call'[p].ipc # "cbafter"
\* circuitBreaker.Execute has returned for p's call
BreakerReturned(p) == call[p].ipc \in {"write", "send", "exited"}

\* what C34 says of outcomes and of refused calls: one report per admitted
\* call, a failure exactly when retry.Execute returned an error (which is when
\* the last invocation did), nothing invoked for a refused call
OneOutcome(p) ==
    /\ Len(call[p].rep) <= 1
    /\ BreakerReturned(p) => Len(call[p].rep) = IF call[p].adm THEN 1 ELSE 0
    /\ ~ call[p].adm => call[p].ninv = 0 /\ call[p].att = 0
    /\ ReportsOutcome(p) =>
          /\ call[p].adm /\ call[p].ninv \in 1..rconfig.MaxAttempts
          /\ call'[p].rep = << call[p].ierr = Nil >>
          /\ call[p].ierr = Nil <=> call[p].opret.err = Nil
          /\ cb' = afterRequest(config, cb, call[p].gen, call[p].ierr = Nil, clock)
    /\ Refuses(p) =>
          /\ call'[p].ninv = 0 /\ call'[p].att = 0
          /\ BreakerReturned(p)'
          /\ call'[p].ierr = asError(ErrCircuitOpen)

\* C34 as stated: with breaker and retry, every admitted call increments
\* requests exactly once and reports exactly one outcome, whatever the
\* number of attempts; the outcome is a failure exactly when retry.Execute
\* returned an error; a refused call triggers no attempt and no invocation
C34_BreakerWrapsRetry ==
    [][has.cb /\ has.re =>
          \A p \in Solo :
              /\ Admits(p) => cb'.counts.requests = RequestsFound + 1
              /\ OneOutcome(p)]_executorAll

\* C34 amended: as stated, except that the call that moves the breaker from
\* Open to HalfOpen is admitted with requests left as it is
C34_Amended ==
    [][has.cb /\ has.re =>
          \A p \in Solo :
              /\ Admits(p) =>
                    cb'.counts.requests = RequestsFound + IF Transitions THEN 0 ELSE 1
              /\ OneOutcome(p)]_executorAll
\* the call that moved the breaker to HalfOpen made two attempts and reported
\* one failure
C34_Witness ==
    /\ has.cb /\ has.re
    /\ call[1].adm /\ call[1].gen = 0
    /\ call[1].ninv = 2
    /\ call[1].rep = << FALSE >>
    /\ call[1].ipc = "exited"


(***************************************************************************)
(* Executor: bulkhead around timeout                                       *)
(***************************************************************************)
\* the calls whose operation is running
RunningOps == { p \in ExecCallers : call[p].ipc = "op" }
\* the calls for which timeout.Execute has been called and has not returned
InTimeout == { p \in ExecCallers : call[p].pc \in {"tsel", "twait", "tdone"} }
\* p's call returned ErrTimeout and its operation is still running
Abandoned(p) == call[p].pc = "done" /\ call[p].res.err = ErrTimeout /\ call[p].ipc = "op"

\* C38 as stated: with bulkhead and timeout, the operations running at one
\* instant, those of calls that returned ErrTimeout included, never exceed
\* the bulkhead's MaxConcurrent
C38_RunningBounded == Cardinality(RunningOps) <= bconfig.MaxConcurrent

\* C38 amended: the running operations of calls for which timeout.Execute
\* has not returned never exceed MaxConcurrent, and each of those calls holds
\* one of the tokens in b.sem
C38_Amended ==
    /\ Cardinality(RunningOps \cap InTimeout) <= bconfig.MaxConcurrent
    /\ Cardinality(InTimeout) <= sem
    /\ sem <= bconfig.MaxConcurrent
\* one call has returned ErrTimeout with its operation still running while
\* the operation of the next call runs in the slot it freed
C38_Witness ==
    /\ Abandoned(1)
    /\ 2 \in RunningOps \cap InTimeout
    /\ sem = 1


(***************************************************************************)
(* Executor: timeout around circuit breaker                                *)
(***************************************************************************)
\* ExecuteWithResult has returned ErrTimeout to p (the bulkhead's deferred
\* receives may still be due)
ReturnedTimeout(p) ==
    call[p].pc \in {"release", "leave", "done"} /\ call[p].res.err = ErrTimeout
\* the step in which timeout.Execute returns ErrTimeout for p's call
TimesOut(p) == call[p].pc = "tdone" /\ ReturnedTimeout(p)'

\* C39 as stated: with timeout and breaker, a call that returned ErrTimeout
\* has been recorded by the breaker as a failure by the time the Executor
\* returns
C39_TimeoutIsFailure ==
    \A p \in Solo :
        has.to /\ has.cb /\ call[p].pc = "done" /\ call[p].res.err = ErrTimeout =>
            call[p].rep = << FALSE >>

\* C39 amended: when a call returns ErrTimeout the breaker has its outcome
\* exactly if circuitBreaker.Execute has already returned for it in the
\* goroutine, and the outcome is what retry.Execute (or the operation)
\* returned, failure or success; otherwise the outcome is reported when that
\* returns, after the Executor has returned, or never
C39_Amended ==
    [][has.to /\ has.cb =>
          \A p \in Solo :
              /\ TimesOut(p) =>
                    call'[p].rep = IF BreakerReturned(p)' /\ call'[p].adm
                                   THEN << call'[p].ierr = Nil >>
                                   ELSE << >>
              /\ ReturnedTimeout(p) /\ ReportsOutcome(p) =>
                    /\ call[p].rep = << >>
                    /\ call'[p].rep = << call[p].ierr = Nil >>
                    /\ call[p].ierr = Nil <=> call[p].opret.err = Nil
                    /\ cb' = afterRequest(config, cb, call[p].gen, call[p].ierr = Nil, clock)]_executorAll
\* a call returned ErrTimeout; its operation returned nil afterwards and the
\* breaker was told of a success
C39_Witness ==
    /\ has.to /\ has.cb
    /\ call[1].pc = "done"
    /\ call[1].res.err = ErrTimeout
    /\ call[1].rep = << TRUE >>
    /\ call[1].ch = << Nil >>


(***************************************************************************)
(* Executor: the value returned with ErrTimeout                            *)
(***************************************************************************)
\* C40: when ExecuteWithResult returns ErrTimeout the value is nil, whatever
\* the operation produced and whenever it produced it
C40_NoValueAfterTimeout ==
    \A p \in Solo :
        has.to /\ call[p].pc = "done" /\ call[p].res.err = ErrTimeout =>
            call[p].res.val = NilValue

====
